---- MODULE Spec2Model ----
(***************************************************************************)
(* Cantotype: the IndexedDB synchronization protocol of the main module    *)
(* (initDB, syncTransaction, prepTrans, reloadDB) run by several app       *)
(* instances against one shared database.                                  *)
(*                                                                         *)
(* The database is {vars, cinfo, cread, words}.  A readwrite transaction   *)
(* whose scope holds "vars" excludes every other such transaction, and its *)
(* writes become visible to other connections only when it commits: the    *)
(* committed database is `store`, the working copy of the live transaction *)
(* is `txn`, and `owner` is the instance whose transaction is live.        *)
(***************************************************************************)
EXTENDS Integers, Sequences, FiniteSets, TLC

\* Number of app instances (browser tabs), each running one session.
NumInst == 2

Inst == 1..NumInst

\* Number of sessions whose loads of the data files are followed request
\* by request.
NumLoad == 1

Loaders == 1..NumLoad

\* go's combined array ca of the data files with the type of each: one
\* file of character records and one file of word records.
ca == <<"char", "word">>

\* Data versions "YYYY-MM-DD:RRR", shortened to strings of two digits.
DataVers == {<<0, 2>>, <<1, 0>>}

\* m_dbimage before the initial transaction has established it.
NoImage == -1

(***************************************************************************)
(* Values                                                                  *)
(***************************************************************************)

\* An object-store get() result: <<>> when no record has the key.
Has(x) == x # <<>>
Val(x) == x[1]

\* JavaScript string comparison a < b: code unit by code unit.
RECURSIVE StrLess(_, _)
StrLess(a, b) ==
  IF a = <<>> THEN b # <<>>
  ELSE IF b = <<>> THEN FALSE
  ELSE IF a[1] # b[1] THEN a[1] < b[1]
  ELSE StrLess(Tail(a), Tail(b))

\* The object stores, in the sorted order of IDBDatabase.objectStoreNames.
objectStoreNames == <<"cinfo", "cread", "vars", "words">>

\* The database right after onupgradeneeded created the object stores.
EmptyDB ==
  [vars |-> [image |-> <<>>, dataver |-> <<>>],
   cinfo |-> {}, cread |-> {}, words |-> {}]

VARIABLES
  store,        \* committed content of the database
  txn,          \* working copy of the live transaction (= store when none)
  owner,        \* instance whose readwrite transaction is live, 0 if none
  pc,           \* each instance's position
  m_conn,       \* each instance's "database connected" flag
  m_built,      \* each instance's "dictionary initialized" flag
  m_dbimage,    \* each instance's remembered image
  need_reload,  \* syncTransaction's local flag
  file_dataver, \* the dataver each instance read from the data file index
  phase,        \* which continuation the pending prepTrans was given
  idx,          \* loop index i of reloadDB's clear loop / of go()
  reason,       \* what f_err was called with ("" when not called)
  passed,       \* the live transaction of the instance passed the prefix
  wlog,         \* kinds of transactions that have mutated the database
  queue,        \* created transactions waiting to start, oldest first
  n_sync,       \* how many initial transactions each instance has created
  init_done,    \* the instance's initial transaction has committed
  began_empty,  \* image was undefined when the initial transaction was made
  st_calls,     \* the callbacks syncTransaction has invoked, in order
  fstore,       \* committed content of the cache database's fstore
  ftxn,         \* working copy of the live transaction on fstore
  fowner,       \* instance whose readwrite transaction on fstore is live
  cpc,          \* each instance's position in the loader
  jsi,          \* the data file index each instance got over HTTP
  files,        \* the data each instance has attached to its jsi entries
  hasdb,        \* the loader holds a connection to the cache database
  upl,          \* syncCache's update list
  rml,          \* syncCache's removal list
  ci,           \* syncCache's loop index i
  m_loaded,     \* each instance's "data files loaded" flag
  f_ready_n,    \* how often the load has called f_ready
  f_err_log,    \* the reasons the load has called f_err with, in order
  f_status_log, \* the progress reports of dataPassTwo, in order
  reqs,         \* the data files the load has requested over HTTP
  cl_jsx,       \* cacheLoad's jsx, the index read from the cache
  li,           \* loop index i of dataPassTwo / of cacheLoad
  so_far,       \* dataPassTwo's so_far
  all_bytes,    \* dataPassTwo's all_bytes
  g_pc,         \* position of each call of the record loader's go
  g_i,          \* go's loop index i
  g_log,        \* what go has invoked and what its handlers did, in order
  done_called,  \* dataPassOne's flag done_called
  p1_done_n,    \* how often dataPassOne has called its f_done
  x_pc,         \* state of the open request of each call of connectIXDB
  x_upg,        \* odr.onupgradeneeded has made the object store
  x_calls       \* the callbacks connectIXDB has invoked, in order

\* The state of a call of the record loader's go taken by itself.
govars == <<g_pc, g_i, g_log>>

\* The state of a call of connectIXDB taken by itself.
cxvars == <<x_pc, x_upg, x_calls>>

\* dataPassOne's flag and the calls of its f_done.
p1vars == <<done_called, p1_done_n>>

\* The state of the main module's database protocol, without the write log.
mainvars == <<store, txn, owner, pc, m_conn, m_built, m_dbimage, need_reload,
              file_dataver, phase, idx, reason, passed, queue, n_sync,
              init_done, began_empty, st_calls>>

\* What the steps of a load, dataPassOne apart, leave alone.
syncvars == <<mainvars, govars, cxvars, p1vars>>

\* What one load has reported to its caller and requested, and the locals
\* of dataPassTwo and cacheLoad.
loadvars == <<f_ready_n, f_err_log, f_status_log, reqs, cl_jsx, li, so_far,
              all_bytes>>

\* The state of the loader module and of its cache database.
cachevars == <<fstore, ftxn, fowner, cpc, jsi, files, hasdb, upl, rml, ci,
               m_loaded, loadvars, govars, cxvars, p1vars>>

vars == <<syncvars, wlog, cachevars>>

dbvars == <<store, txn, owner>>

hist == <<n_sync, init_done, began_empty, st_calls>>

(***************************************************************************)
(* Decisions taken by the code                                             *)
(***************************************************************************)

\* initDB: "if (m_built || m_conn) fault".
initStateOK(built, conn) == ~(built \/ conn)

\* syncTransaction: "if (m_built || (!m_conn) || (m_dbimage !== -1)) fault".
syncStateOK(built, conn, img) == ~(built \/ ~conn \/ img # NoImage)

\* reloadDB: "if (m_built || (!m_conn) || (m_dbimage < 1)) fault".
reloadStateOK(built, conn, img) == ~(built \/ ~conn \/ img < 1)

\* prepTrans: "if ((!m_conn) || (m_dbimage < 1)) fault".
prepStateOK(conn, img) == ~(~conn \/ img < 1)

\* Mutant: the stored version must be strictly newer to be kept.
dbIsCurrent_strict(stored, file) == StrLess(file, stored)

\* syncTransaction: "r.result.var_value >= file_dataver".
dbIsCurrent(stored, file) == ~StrLess(stored, file)

\* Mutant: the prefix accepts any stored image that is not older.
prefixPasses_notOlder(res, mine) == Has(res) /\ Val(res) >= mine

\* Mutant: the prefix only checks that image is defined.
prefixPasses_defined(res, mine) == Has(res)

\* prepTrans: image must be defined and "r.result.var_value === m_dbimage".
prefixPasses(res, mine) == Has(res) /\ Val(res) = mine

\* Mutant: the image is stored again without being incremented.
nextImage_same(m) == m

\* syncTransaction: "m_dbimage++".
nextImage(m) == m + 1

\* put()/add() of {var_name, var_value} into vars; delete() of a key.
varsPut(db, name, value) == [db EXCEPT !.vars[name] = <<value>>]
varsDelete(db, name) == [db EXCEPT !.vars[name] = <<>>]

\* Mutant: the wrong variable is deleted.
syncDropDataver_image(db) == varsDelete(db, "image")

\* syncTransaction: tr.objectStore("vars").delete("dataver").
syncDropDataver(db) == varsDelete(db, "dataver")

\* Kind of the transaction instance i holds.
TxKind(i) ==
  IF pc[i] \in {"sync_get_image", "sync_added", "sync_chk_dataver",
                "sync_get_dataver", "sync_put_incr",
                "sync_put_redo", "sync_del_dataver", "sync_commit"}
  THEN "initial"
  ELSE IF passed[i] THEN "prefixed" ELSE "unguarded"

\* f_err(why) ends the instance's initialization.
Fail(i, why) ==
  /\ pc' = [pc EXCEPT ![i] = "failed"]
  /\ reason' = [reason EXCEPT ![i] = IF reason[i] = "" THEN why ELSE reason[i]]

(***************************************************************************)
(* initDB                                                                  *)
(***************************************************************************)

\* initDB is called: the open request is started.
InitDB(i) ==
  /\ pc[i] = "start"
  /\ IF initStateOK(m_built[i], m_conn[i])
     THEN pc' = [pc EXCEPT ![i] = "open"]
     ELSE pc' = [pc EXCEPT ![i] = "fault"]
  /\ UNCHANGED <<dbvars, m_conn, m_built, m_dbimage, need_reload,
                 file_dataver, phase, idx, reason, passed, wlog, queue,
                 hist>>
  /\ UNCHANGED cachevars

\* dbo.onsuccess: the handle is kept and checkDataver is started.
OpenSuccess(i) ==
  /\ pc[i] = "open"
  /\ m_conn' = [m_conn EXCEPT ![i] = TRUE]
  /\ pc' = [pc EXCEPT ![i] = "checkDataver"]
  /\ UNCHANGED <<dbvars, m_built, m_dbimage, need_reload, file_dataver,
                 phase, idx, reason, passed, wlog, queue, hist>>
  /\ UNCHANGED cachevars

\* dbo.onerror: f_err("Failed to open IndexedDB").
OpenError(i) ==
  /\ pc[i] = "open"
  /\ Fail(i, "Failed to open IndexedDB")
  /\ UNCHANGED <<dbvars, m_conn, m_built, m_dbimage, need_reload,
                 file_dataver, phase, idx, passed, wlog, queue, hist>>
  /\ UNCHANGED cachevars

\* prepTrans up to "tr = m_db.transaction(storeNames, mode)": the
\* transaction is created and waits for its turn.
prepTrans(i, ph) ==
  IF prepStateOK(m_conn[i], m_dbimage[i])
  THEN /\ pc' = [pc EXCEPT ![i] = "prep_wait"]
       /\ phase' = [phase EXCEPT ![i] = ph]
       /\ queue' = Append(queue, i)
  ELSE /\ pc' = [pc EXCEPT ![i] = "fault"]
       /\ UNCHANGED <<phase, queue>>

\* reloadDB up to its call of prepTrans.
reloadDB(i) ==
  IF reloadStateOK(m_built[i], m_conn[i], m_dbimage[i])
  THEN prepTrans(i, "clear")
  ELSE /\ pc' = [pc EXCEPT ![i] = "fault"]
       /\ UNCHANGED <<phase, queue>>

\* Mutant: the success handler goes straight to the reload transaction,
\* with no initial transaction before it.
CheckDataverDone_noSync(i, dvr) ==
  /\ pc[i] = "checkDataver"
  /\ file_dataver' = [file_dataver EXCEPT ![i] = dvr]
  /\ pc' = [pc EXCEPT ![i] = "prep_wait"]
  /\ phase' = [phase EXCEPT ![i] = "clear"]
  /\ queue' = Append(queue, i)
  /\ UNCHANGED <<dbvars, m_conn, m_built, m_dbimage, need_reload, idx,
                 reason, passed, wlog, hist>>
  /\ UNCHANGED cachevars

\* checkDataver's f_check(dvr): syncTransaction is called and creates the
\* initial transaction; a fault thrown in it is caught by checkDataver and
\* handed to f_err.
CheckDataverDone(i, dvr) ==
  /\ pc[i] = "checkDataver"
  /\ IF syncStateOK(m_built[i], m_conn[i], m_dbimage[i])
     THEN /\ file_dataver' = [file_dataver EXCEPT ![i] = dvr]
          /\ need_reload' = [need_reload EXCEPT ![i] = FALSE]
          /\ pc' = [pc EXCEPT ![i] = "sync_wait"]
          /\ queue' = Append(queue, i)
          /\ n_sync' = [n_sync EXCEPT ![i] = @ + 1]
          /\ began_empty' = [began_empty EXCEPT ![i] = ~Has(store.vars.image)]
          /\ UNCHANGED reason
     ELSE /\ Fail(i, "fault")
          /\ UNCHANGED <<file_dataver, need_reload, queue, n_sync,
                         began_empty>>
  /\ UNCHANGED <<dbvars, m_conn, m_built, m_dbimage, phase, idx, passed,
                 wlog, init_done, st_calls>>
  /\ UNCHANGED cachevars

\* checkDataver could not load or check the data file index: f_err.
CheckDataverError(i) ==
  /\ pc[i] = "checkDataver"
  /\ Fail(i, "index")
  /\ UNCHANGED <<dbvars, m_conn, m_built, m_dbimage, need_reload,
                 file_dataver, phase, idx, passed, wlog, queue, hist>>
  /\ UNCHANGED cachevars

(***************************************************************************)
(* syncTransaction: the initial transaction, readwrite on "vars"           *)
(***************************************************************************)

\* The initial transaction becomes the live transaction.
SyncStart(i) ==
  /\ pc[i] = "sync_wait"
  /\ owner = 0
  /\ queue # <<>>
  /\ Head(queue) = i
  /\ queue' = Tail(queue)
  /\ owner' = i
  /\ pc' = [pc EXCEPT ![i] = "sync_get_image"]
  /\ UNCHANGED <<store, txn, m_conn, m_built, m_dbimage, need_reload,
                 file_dataver, phase, idx, reason, passed, wlog, hist>>
  /\ UNCHANGED cachevars

\* onsuccess of get("image"): add image = 1 when it is not defined, else
\* remember the stored image and query dataver.
SyncGotImage(i) ==
  /\ pc[i] = "sync_get_image"
  /\ IF ~Has(txn.vars.image)
     THEN /\ txn' = varsPut(txn, "image", 1)
          /\ wlog' = wlog \cup {TxKind(i)}
          /\ pc' = [pc EXCEPT ![i] = "sync_added"]
          /\ UNCHANGED m_dbimage
     ELSE /\ m_dbimage' = [m_dbimage EXCEPT ![i] = Val(txn.vars.image)]
          /\ pc' = [pc EXCEPT ![i] = "sync_get_dataver"]
          /\ UNCHANGED <<txn, wlog>>
  /\ UNCHANGED <<store, owner, m_conn, m_built, need_reload, file_dataver,
                 phase, idx, reason, passed, queue, hist>>
  /\ UNCHANGED cachevars

\* onsuccess of add(image = 1): remember 1 and query dataver.
SyncAdded(i) ==
  /\ pc[i] = "sync_added"
  /\ m_dbimage' = [m_dbimage EXCEPT ![i] = 1]
  /\ pc' = [pc EXCEPT ![i] = "sync_chk_dataver"]
  /\ UNCHANGED <<dbvars, m_conn, m_built, need_reload, file_dataver, phase,
                 idx, reason, passed, wlog, queue, hist>>
  /\ UNCHANGED cachevars

\* onsuccess of get("dataver") after the add: a stray dataver is deleted
\* (with the onsuccess of that delete), and the reload flag is set.
SyncChkDataver(i) ==
  /\ pc[i] = "sync_chk_dataver"
  /\ IF Has(txn.vars.dataver)
     THEN /\ txn' = varsDelete(txn, "dataver")
          /\ wlog' = wlog \cup {TxKind(i)}
     ELSE UNCHANGED <<txn, wlog>>
  /\ need_reload' = [need_reload EXCEPT ![i] = TRUE]
  /\ pc' = [pc EXCEPT ![i] = "sync_commit"]
  /\ UNCHANGED <<store, owner, m_conn, m_built, m_dbimage, file_dataver,
                 phase, idx, reason, passed, queue, hist>>
  /\ UNCHANGED cachevars

\* onsuccess of get("dataver") when image was defined.
SyncGotDataver(i) ==
  /\ pc[i] = "sync_get_dataver"
  /\ IF ~Has(txn.vars.dataver)
     THEN /\ m_dbimage' = [m_dbimage EXCEPT ![i] = nextImage(m_dbimage[i])]
          /\ txn' = varsPut(txn, "image", nextImage(m_dbimage[i]))
          /\ wlog' = wlog \cup {TxKind(i)}
          /\ pc' = [pc EXCEPT ![i] = "sync_put_incr"]
          /\ UNCHANGED need_reload
     ELSE IF dbIsCurrent(Val(txn.vars.dataver), file_dataver[i])
     THEN /\ need_reload' = [need_reload EXCEPT ![i] = FALSE]
          /\ pc' = [pc EXCEPT ![i] = "sync_commit"]
          /\ UNCHANGED <<txn, wlog, m_dbimage>>
     ELSE /\ m_dbimage' = [m_dbimage EXCEPT ![i] = nextImage(m_dbimage[i])]
          /\ txn' = varsPut(txn, "image", nextImage(m_dbimage[i]))
          /\ wlog' = wlog \cup {TxKind(i)}
          /\ pc' = [pc EXCEPT ![i] = "sync_put_redo"]
          /\ UNCHANGED need_reload
  /\ UNCHANGED <<store, owner, m_conn, m_built, file_dataver, phase, idx,
                 reason, passed, queue, hist>>
  /\ UNCHANGED cachevars

\* onsuccess of put(image) when dataver was not defined.
SyncPutIncr(i) ==
  /\ pc[i] = "sync_put_incr"
  /\ need_reload' = [need_reload EXCEPT ![i] = TRUE]
  /\ pc' = [pc EXCEPT ![i] = "sync_commit"]
  /\ UNCHANGED <<dbvars, m_conn, m_built, m_dbimage, file_dataver, phase,
                 idx, reason, passed, wlog, queue, hist>>
  /\ UNCHANGED cachevars

\* onsuccess of put(image) when the data files are newer: delete dataver.
SyncPutRedo(i) ==
  /\ pc[i] = "sync_put_redo"
  /\ txn' = syncDropDataver(txn)
  /\ wlog' = wlog \cup {TxKind(i)}
  /\ pc' = [pc EXCEPT ![i] = "sync_del_dataver"]
  /\ UNCHANGED <<store, owner, m_conn, m_built, m_dbimage, need_reload,
                 file_dataver, phase, idx, reason, passed, queue, hist>>
  /\ UNCHANGED cachevars

\* onsuccess of delete("dataver").
SyncDelDataver(i) ==
  /\ pc[i] = "sync_del_dataver"
  /\ need_reload' = [need_reload EXCEPT ![i] = TRUE]
  /\ pc' = [pc EXCEPT ![i] = "sync_commit"]
  /\ UNCHANGED <<dbvars, m_conn, m_built, m_dbimage, file_dataver, phase,
                 idx, reason, passed, wlog, queue, hist>>
  /\ UNCHANGED cachevars

\* The initial transaction commits and tr.oncomplete runs: f_err when
\* m_dbimage was not set (without returning), then f_reload (reloadDB) or
\* f_ready (initDB's f_done).
SyncComplete(i) ==
  /\ pc[i] = "sync_commit"
  /\ store' = txn
  /\ owner' = 0
  /\ init_done' = [init_done EXCEPT ![i] = TRUE]
  /\ reason' = [reason EXCEPT ![i] =
                  IF m_dbimage[i] < 1 THEN "Image check failed!" ELSE @]
  /\ st_calls' = [st_calls EXCEPT ![i] =
                    (IF m_dbimage[i] < 1 THEN Append(@, "f_err") ELSE @)
                    \o <<IF need_reload[i] THEN "f_reload" ELSE "f_ready">>]
  /\ IF need_reload[i]
     THEN reloadDB(i)
     ELSE /\ pc' = [pc EXCEPT ![i] = "done"]
          /\ UNCHANGED <<phase, queue>>
  /\ UNCHANGED <<txn, m_conn, m_built, m_dbimage, need_reload, file_dataver,
                 idx, passed, wlog, n_sync, began_empty>>
  /\ UNCHANGED cachevars

(***************************************************************************)
(* prepTrans (the transaction prefix) and reloadDB                         *)
(***************************************************************************)

\* Records of data file k at data version v, and the stores they go to.
fileStores(k) == IF ca[k] = "char" THEN {"cinfo", "cread"} ELSE {"words"}
addRecords(db, k, v) ==
  [n \in DOMAIN db |->
     IF n \in fileStores(k) THEN db[n] \cup {<<k, v>>} ELSE db[n]]

\* Mutant: the loop does not skip the "vars" store.
clearF_all(db, k) ==
  IF k <= Len(objectStoreNames)
  THEN [db |-> [db EXCEPT ![objectStoreNames[k]] =
                  IF objectStoreNames[k] = "vars" THEN EmptyDB.vars ELSE {}],
        i |-> k + 1, issued |-> TRUE]
  ELSE [db |-> db, i |-> k, issued |-> FALSE]

\* Mutant: the loop clears nothing.
clearF_none(db, k) == [db |-> db, i |-> k, issued |-> FALSE]

\* reloadDB's f: skip "vars", then clear the store at index i and increment
\* i, or issue nothing when i is past the end.
clearF(db, k) ==
  LET k1 == IF k <= Len(objectStoreNames) /\ objectStoreNames[k] = "vars"
            THEN k + 1 ELSE k
  IN IF k1 <= Len(objectStoreNames)
     THEN [db |-> [db EXCEPT ![objectStoreNames[k1]] = {}],
           i |-> k1 + 1, issued |-> TRUE]
     ELSE [db |-> db, i |-> k1, issued |-> FALSE]

\* Kind of the transaction of i once this step's prefix result is known.
TxKindNext(i) == IF passed'[i] THEN "prefixed" ELSE "unguarded"

\* The transaction made by prepTrans becomes the live transaction and
\* get("image") is issued.
PrepStart(i) ==
  /\ pc[i] = "prep_wait"
  /\ owner = 0
  /\ queue # <<>>
  /\ Head(queue) = i
  /\ queue' = Tail(queue)
  /\ owner' = i
  /\ passed' = [passed EXCEPT ![i] = FALSE]
  /\ pc' = [pc EXCEPT ![i] = "prep_get_image"]
  /\ UNCHANGED <<store, txn, m_conn, m_built, m_dbimage, need_reload,
                 file_dataver, phase, idx, reason, wlog, hist>>
  /\ UNCHANGED cachevars

\* f_ready(tr) of reloadDB: the first call of f.
reloadClear(i) ==
  LET r == clearF(txn, 1)
  IN /\ txn' = r.db
     /\ idx' = [idx EXCEPT ![i] = r.i]
     /\ wlog' = IF r.issued THEN wlog \cup {TxKindNext(i)} ELSE wlog
     /\ pc' = [pc EXCEPT ![i] = IF r.issued THEN "clear" ELSE "tx_commit"]

\* f_ready(tr) of a data file handler: the file's records are written.
reloadAdd(i) ==
  /\ txn' = addRecords(txn, idx[i] - 1, file_dataver[i])
  /\ wlog' = wlog \cup {TxKindNext(i)}
  /\ pc' = [pc EXCEPT ![i] = "tx_commit"]
  /\ UNCHANGED idx

\* f_ready(tr) of the end of the reload: dataver is written.
reloadSetDataver(i) ==
  /\ txn' = varsPut(txn, "dataver", file_dataver[i])
  /\ wlog' = wlog \cup {TxKindNext(i)}
  /\ pc' = [pc EXCEPT ![i] = "tx_commit"]
  /\ UNCHANGED idx

\* prepTrans's onsuccess of get("image"): f_err("DBSyncError") unless the
\* stored image is the remembered one, else f_ready(tr).
PrepGotImage(i) ==
  /\ pc[i] = "prep_get_image"
  /\ IF prefixPasses(txn.vars.image, m_dbimage[i])
     THEN /\ passed' = [passed EXCEPT ![i] = TRUE]
          /\ CASE phase[i] = "clear" -> reloadClear(i)
               [] phase[i] = "load" -> reloadAdd(i)
               [] OTHER -> reloadSetDataver(i)
          /\ UNCHANGED reason
     ELSE /\ reason' = [reason EXCEPT ![i] = "DBSyncError"]
          /\ pc' = [pc EXCEPT ![i] = "prep_fail"]
          /\ UNCHANGED <<txn, idx, wlog, passed>>
  /\ UNCHANGED <<store, owner, m_conn, m_built, m_dbimage, need_reload,
                 file_dataver, phase, queue, hist>>
  /\ UNCHANGED cachevars

\* The transaction whose prefix failed has nothing more to do and ends.
PrepFailComplete(i) ==
  /\ pc[i] = "prep_fail"
  /\ store' = txn
  /\ owner' = 0
  /\ passed' = [passed EXCEPT ![i] = FALSE]
  /\ pc' = [pc EXCEPT ![i] = "failed"]
  /\ UNCHANGED <<txn, m_conn, m_built, m_dbimage, need_reload, file_dataver,
                 phase, idx, reason, wlog, queue, hist>>
  /\ UNCHANGED cachevars

\* onsuccess of a clear(): f again.
ClearSuccess(i) ==
  /\ pc[i] = "clear"
  /\ LET r == clearF(txn, idx[i])
     IN /\ txn' = r.db
        /\ idx' = [idx EXCEPT ![i] = r.i]
        /\ wlog' = IF r.issued THEN wlog \cup {TxKind(i)} ELSE wlog
        /\ pc' = [pc EXCEPT ![i] = IF r.issued THEN "clear" ELSE "tx_commit"]
  /\ UNCHANGED <<store, owner, m_conn, m_built, m_dbimage, need_reload,
                 file_dataver, phase, reason, passed, queue, hist>>
  /\ UNCHANGED cachevars

\* reloadDB's clearing transaction commits and its oncomplete runs:
\* ctt_load.go is started.
ClearComplete(i) ==
  /\ pc[i] = "tx_commit"
  /\ phase[i] = "clear"
  /\ store' = txn
  /\ owner' = 0
  /\ passed' = [passed EXCEPT ![i] = FALSE]
  /\ pc' = [pc EXCEPT ![i] = "go"]
  /\ idx' = [idx EXCEPT ![i] = 1]
  /\ UNCHANGED <<txn, m_conn, m_built, m_dbimage, need_reload, file_dataver,
                 phase, reason, wlog, queue, hist>>
  /\ UNCHANGED cachevars

\* The transaction of a data file handler commits: the handler calls its
\* done callback, which is go's f.
LoadComplete(i) ==
  /\ pc[i] = "tx_commit"
  /\ phase[i] = "load"
  /\ store' = txn
  /\ owner' = 0
  /\ passed' = [passed EXCEPT ![i] = FALSE]
  /\ pc' = [pc EXCEPT ![i] = "go"]
  /\ UNCHANGED <<txn, m_conn, m_built, m_dbimage, need_reload, file_dataver,
                 phase, idx, reason, wlog, queue, hist>>
  /\ UNCHANGED cachevars

\* The transaction that wrote dataver commits: m_built is set and f_done
\* is called.
SetDataverComplete(i) ==
  /\ pc[i] = "tx_commit"
  /\ phase[i] = "setdv"
  /\ store' = txn
  /\ owner' = 0
  /\ passed' = [passed EXCEPT ![i] = FALSE]
  /\ m_built' = [m_built EXCEPT ![i] = TRUE]
  /\ pc' = [pc EXCEPT ![i] = "done"]
  /\ UNCHANGED <<txn, m_conn, m_dbimage, need_reload, file_dataver, phase,
                 idx, reason, wlog, queue, hist>>
  /\ UNCHANGED cachevars

\* The handler reloadDB gives go for a block of records: a transaction of
\* its own, made by prepTrans.
handleRecords(i) == prepTrans(i, "load")

\* The handler reloadDB gives go for the end of the load: a transaction on
\* "vars", made by prepTrans, to set dataver.
handleDone(i) == prepTrans(i, "setdv")

\* go's f: the next data file was loaded, i is incremented and the file's
\* handler is invoked; or, past the last file, f_done is invoked.
Go(i) ==
  /\ pc[i] = "go"
  /\ IF idx[i] <= Len(ca)
     THEN /\ idx' = [idx EXCEPT ![i] = idx[i] + 1]
          /\ handleRecords(i)
     ELSE /\ handleDone(i)
          /\ UNCHANGED idx
  /\ UNCHANGED <<dbvars, m_conn, m_built, m_dbimage, need_reload,
                 file_dataver, reason, passed, wlog, hist>>
  /\ UNCHANGED cachevars

\* go could not load the index or a data file: f_err.
GoError(i) ==
  /\ pc[i] = "go"
  /\ Fail(i, "load")
  /\ UNCHANGED <<dbvars, m_conn, m_built, m_dbimage, need_reload,
                 file_dataver, phase, idx, passed, wlog, queue, hist>>
  /\ UNCHANGED cachevars

\* The live transaction aborts: its writes are discarded and tr.onabort,
\* which is f_err, runs.
TxAbort(i) ==
  /\ owner = i
  /\ txn' = store
  /\ owner' = 0
  /\ passed' = [passed EXCEPT ![i] = FALSE]
  /\ Fail(i, "abort")
  /\ st_calls' = [st_calls EXCEPT ![i] =
                    IF TxKind(i) = "initial" THEN Append(@, "f_err") ELSE @]
  /\ UNCHANGED <<store, m_conn, m_built, m_dbimage, need_reload,
                 file_dataver, phase, idx, wlog, queue, n_sync, init_done,
                 began_empty>>
  /\ UNCHANGED cachevars

\* A request of the initial transaction fails: its error event bubbles up
\* to the transaction, where tr.onerror, which is f_err, runs; the
\* transaction is then aborted, its writes are discarded, and tr.onabort,
\* which is f_err too, runs.
SyncRequestError(i) ==
  /\ owner = i
  /\ TxKind(i) = "initial"
  /\ pc[i] # "sync_commit"
  /\ txn' = store
  /\ owner' = 0
  /\ passed' = [passed EXCEPT ![i] = FALSE]
  /\ Fail(i, "error")
  /\ st_calls' = [st_calls EXCEPT ![i] = @ \o <<"f_err", "f_err">>]
  /\ UNCHANGED <<store, m_conn, m_built, m_dbimage, need_reload,
                 file_dataver, phase, idx, wlog, queue, n_sync, init_done,
                 began_empty>>
  /\ UNCHANGED cachevars

\* go's f with the handlers reloadDB gives go as they stand: each handler
\* only calls its done callback, which is f again, and past the last file
\* f_done is the function that logs "loading done" and calls nothing.
go_f(i) ==
  /\ pc[i] = "go"
  /\ IF idx[i] <= Len(ca)
     THEN /\ idx' = [idx EXCEPT ![i] = idx[i] + 1]
          /\ UNCHANGED pc
     ELSE /\ pc' = [pc EXCEPT ![i] = "loaded"]
          /\ UNCHANGED idx
  /\ UNCHANGED <<dbvars, m_conn, m_built, m_dbimage, need_reload,
                 file_dataver, phase, reason, passed, wlog, queue, hist>>
  /\ UNCHANGED cachevars

(***************************************************************************)
(* The loader module: the cache database "CantotypeCache" with its single  *)
(* object store fstore, shared by the instances.  The key "index" holds    *)
(* the raw data file index, every other key holds a data file.             *)
(***************************************************************************)

\* The data files, in the order Object.keys gives them.
fileNames == <<"a.gz", "b.gz">>

\* The names a data file index may list, in the order Object.keys gives
\* them: verifyIndex does not look at the names, so "index" may be one,
\* and so may ".gz", which begins with a period.
entryNames == <<"a.gz", "b.gz", "index", ".gz">>

\* The keys of fstore in the order getAllKeys gives them.
fstoreKeys == <<".gz", "a.gz", "b.gz", "index">>

Range(s) == {s[n] : n \in DOMAIN s}

\* The data file indexes a server may serve: sets of <<name, revision>>,
\* a revision being a string of two digits.
RemoteIndexes ==
  { {<<"a.gz", <<0, 2>>>>},
    {<<"a.gz", <<1, 0>>>>, <<"b.gz", <<0, 2>>>>},
    {<<"b.gz", <<0, 2>>>>} }

\* The values of fstore: no record, a raw index, the bytes of a data file.
NoRecord == [kind |-> "none", name |-> "", rev |-> <<>>, man |-> {}]
rawIndex(m) == [kind |-> "index", name |-> "", rev |-> <<>>, man |-> m]
fileData(k, r) == [kind |-> "file", name |-> k, rev |-> r, man |-> {}]

EmptyCache == [k \in Range(fstoreKeys) |-> NoRecord]

\* No entry of the index has data attached.
noFiles == [k \in Range(entryNames) |-> NoRecord]

\* k in js
inIndex(k, js) == \E e \in js : e[1] = k

\* js[k][0]
revOf(js, k) == (CHOOSE e \in js : e[1] = k)[2]

\* Object.keys(js)
keysOf(js) == SelectSeq(entryNames, LAMBDA k : inIndex(k, js))

\* What a get("index") result yields after the result test, pako.inflate,
\* JSON.parse and verifyIndex: <<jsx>>, or <<>> when any of them fails.
readIndex(res) == IF res.kind = "index" THEN <<res.man>> ELSE <<>>

\* Mutant: only a file the stored index does not have is updated.
needsUpdate_absentOnly(jsx, js, k) == ~inIndex(k, jsx)

\* Mutant: a file whose stored revision is the same is updated too.
needsUpdate_orEqual(jsx, js, k) ==
  ~inIndex(k, jsx) \/ ~StrLess(revOf(js, k), revOf(jsx, k))

\* The test that puts a key of the HTTP index on the update list.
needsUpdate(jsx, js, k) ==
  ~inIndex(k, jsx) \/ StrLess(revOf(jsx, k), revOf(js, k))

\* syncCache's update list and removal list.
updateList(jsx, js) ==
  SelectSeq(keysOf(js), LAMBDA k : needsUpdate(jsx, js, k))

removalList(jsx, js) ==
  SelectSeq(keysOf(jsx), LAMBDA k : ~inIndex(k, js))

\* Mutant: the redone removal list is left empty.
actualRemovals_none(db, js) == <<>>

\* f_upd's removal list, redone from the keys actually in the store.
actualRemovals(db, js) ==
  SelectSeq(fstoreKeys,
            LAMBDA k : db[k].kind # "none" /\ k # "index" /\ ~inIndex(k, js))

\* The kind of syncCache's transaction: it is not the initial transaction
\* and its first request is get("index"); there is no prefix check.
syncCacheTxKind == "unguarded"

(***************************************************************************)
(* The loader's initDB on the online path                                  *)
(***************************************************************************)

\* initDB: loadGZJSON delivered the data file index R and it verified.
loaderInitDB(i, R) ==
  /\ cpc[i] = "start"
  /\ jsi' = [jsi EXCEPT ![i] = R]
  /\ cpc' = [cpc EXCEPT ![i] = "connect"]
  /\ UNCHANGED <<fstore, ftxn, fowner, files, hasdb, upl, rml, ci, m_loaded>>
  /\ UNCHANGED <<syncvars, wlog, loadvars>>

\* connectIXDB: odr.onsuccess, f_db with the handle.
connectIXDB_db(i) ==
  /\ cpc[i] = "connect"
  /\ hasdb' = [hasdb EXCEPT ![i] = TRUE]
  /\ cpc' = [cpc EXCEPT ![i] = "pass1"]
  /\ UNCHANGED <<fstore, ftxn, fowner, jsi, files, upl, rml, ci, m_loaded>>
  /\ UNCHANGED <<syncvars, wlog, loadvars>>

\* Mutant: a failed open ends the load with f_err.
connectIXDB_nodb_fatal(i) ==
  /\ cpc[i] = "connect"
  /\ cpc' = [cpc EXCEPT ![i] = "failed"]
  /\ f_err_log' = [f_err_log EXCEPT ![i] = Append(@, "No IndexedDB")]
  /\ UNCHANGED <<fstore, ftxn, fowner, jsi, files, hasdb, upl, rml, ci,
                 m_loaded>>
  /\ UNCHANGED <<f_ready_n, f_status_log, reqs, cl_jsx, li, so_far,
                 all_bytes>>
  /\ UNCHANGED <<syncvars, wlog>>

\* connectIXDB: odr.onerror, odr.onblocked or an exception, f_nodb.
connectIXDB_nodb(i) ==
  /\ cpc[i] = "connect"
  /\ cpc' = [cpc EXCEPT ![i] = "pass2"]
  /\ UNCHANGED <<fstore, ftxn, fowner, jsi, files, hasdb, upl, rml, ci,
                 m_loaded>>
  /\ UNCHANGED <<syncvars, wlog, loadvars>>

\* Mutant: only a strictly newer stored revision is taken from the cache.
cacheData_newerOnly(db, ix, js, k) ==
  IF /\ Has(ix)
     /\ inIndex(k, js)
     /\ inIndex(k, Val(ix))
     /\ StrLess(revOf(js, k), revOf(Val(ix), k))
  THEN db[k]
  ELSE NoRecord

\* Mutant: the stored record is attached whatever the stored index is.
cacheData_anyIndex(db, ix, js, k) ==
  IF inIndex(k, js) THEN db[k] ELSE NoRecord

\* What dataPassOne attaches to the entry of key k, given the stored index
\* result ix and the store db.
cacheData(db, ix, js, k) ==
  IF /\ Has(ix)
     /\ inIndex(k, js)
     /\ inIndex(k, Val(ix))
     /\ ~StrLess(revOf(Val(ix), k), revOf(js, k))
  THEN db[k]
  ELSE NoRecord

\* Mutant: the handlers of the transaction's events call f_done whether
\* or not it was called before.
doneOnce_always(dc, n) == [dc |-> TRUE, n |-> n + 1]

\* The body tr.onabort and tr.onerror of dataPassOne share: f_done is
\* called unless done_called is set, and done_called is set.
doneOnce(dc, n) ==
  IF ~dc THEN [dc |-> TRUE, n |-> n + 1] ELSE [dc |-> dc, n |-> n]

\* dataPassOne: one readonly transaction over fstore, which runs when no
\* readwrite transaction on fstore is live.  Without a usable stored index
\* the transaction is aborted and tr.onabort runs; else f goes through the
\* keys and past the last one sets done_called and calls f_done.  The
\* completion of the transaction runs no handler (tr.onsuccess is not an
\* event of a transaction).
dataPassOne(i) ==
  /\ cpc[i] = "pass1"
  /\ fowner = 0
  /\ LET ix == readIndex(fstore["index"])
         r  == IF ~Has(ix)
               THEN doneOnce(done_called[i], p1_done_n[i])
               ELSE [dc |-> TRUE, n |-> p1_done_n[i] + 1]
     IN  /\ files' = [files EXCEPT ![i] =
                        [k \in Range(entryNames) |->
                           cacheData(fstore, ix, jsi[i], k)]]
         /\ done_called' = [done_called EXCEPT ![i] = r.dc]
         /\ p1_done_n' = [p1_done_n EXCEPT ![i] = r.n]
  /\ cpc' = [cpc EXCEPT ![i] = "pass2"]
  /\ UNCHANGED <<fstore, ftxn, fowner, jsi, hasdb, upl, rml, ci, m_loaded>>
  /\ UNCHANGED <<mainvars, govars, cxvars, wlog, loadvars>>

\* Mutant: the second pass finds nothing to download.
missing_none(js, fs) == {}

\* The entries of the index that have no data attached yet.
missing(js, fs) == {k \in Range(entryNames) :
                      inIndex(k, js) /\ fs[k].kind = "none"}

\* dataPassTwo downloaded every missing file; initDB's continuation calls
\* syncCache when there is a connection, which creates the transaction,
\* and then sets m_loaded and calls f_ready.
dataPassTwo(i) ==
  /\ cpc[i] = "pass2"
  /\ files' = [files EXCEPT ![i] =
                 [k \in Range(entryNames) |->
                    IF k \in missing(jsi[i], files[i])
                    THEN fileData(k, revOf(jsi[i], k))
                    ELSE files[i][k]]]
  /\ m_loaded' = [m_loaded EXCEPT ![i] = TRUE]
  /\ cpc' = [cpc EXCEPT ![i] = IF hasdb[i] THEN "sc_wait" ELSE "ready"]
  /\ UNCHANGED <<fstore, ftxn, fowner, jsi, hasdb, upl, rml, ci>>
  /\ UNCHANGED <<syncvars, wlog, loadvars>>

\* dataPassTwo: a download ended with a status other than 200, f_err.
dataPassTwoError(i) ==
  /\ cpc[i] = "pass2"
  /\ missing(jsi[i], files[i]) # {}
  /\ cpc' = [cpc EXCEPT ![i] = "failed"]
  /\ UNCHANGED <<fstore, ftxn, fowner, jsi, files, hasdb, upl, rml, ci,
                 m_loaded>>
  /\ UNCHANGED <<syncvars, wlog, loadvars>>

(***************************************************************************)
(* syncCache                                                               *)
(***************************************************************************)

\* syncCache's readwrite transaction starts: no other is live on fstore.
\* Its first request, get("index"), is pending.
syncCacheStart(i) ==
  /\ cpc[i] = "sc_wait"
  /\ fowner = 0
  /\ fowner' = i
  /\ ftxn' = fstore
  /\ cpc' = [cpc EXCEPT ![i] = "sc_index"]
  /\ UNCHANGED <<fstore, jsi, files, hasdb, upl, rml, ci, m_loaded>>
  /\ UNCHANGED <<syncvars, wlog, loadvars>>

\* r.onsuccess of get("index"): f_full when there is no usable index,
\* else the two lists are built and f_upd runs unless both are empty.
syncCacheGotIndex(i) ==
  /\ cpc[i] = "sc_index"
  /\ LET ix == readIndex(ftxn["index"])
     IN  IF ~Has(ix)
         THEN /\ cpc' = [cpc EXCEPT ![i] = "full_clear"]
              /\ UNCHANGED <<upl, rml, ci>>
         ELSE LET u == updateList(Val(ix), jsi[i])
                  r == removalList(Val(ix), jsi[i])
              IN  /\ upl' = [upl EXCEPT ![i] = u]
                  /\ rml' = [rml EXCEPT ![i] = r]
                  /\ IF Len(u) > 0 \/ Len(r) > 0
                     THEN /\ ci' = [ci EXCEPT ![i] = -1]
                          /\ cpc' = [cpc EXCEPT ![i] = "upd_put"]
                     ELSE /\ cpc' = [cpc EXCEPT ![i] = "sc_commit"]
                          /\ UNCHANGED ci
  /\ UNCHANGED <<fstore, ftxn, fowner, jsi, files, hasdb, m_loaded>>
  /\ UNCHANGED <<syncvars, wlog, loadvars>>

\* syncCache's locals upl, rml and i, which are gone once its transaction
\* has ended and no callback of it is left.
endLocals(i) ==
  /\ upl' = [upl EXCEPT ![i] = <<>>]
  /\ rml' = [rml EXCEPT ![i] = <<>>]
  /\ ci' = [ci EXCEPT ![i] = 0]

\* The transaction aborts: its writes are discarded, tr.onabort closes
\* the connection.
abortCache(i) ==
  /\ ftxn' = fstore
  /\ fowner' = 0
  /\ hasdb' = [hasdb EXCEPT ![i] = FALSE]
  /\ cpc' = [cpc EXCEPT ![i] = "sc_aborted"]
  /\ endLocals(i)

\* f_full: the clear request, then its onsuccess which requests the add of
\* the raw index.
f_full_clear(i) ==
  /\ cpc[i] = "full_clear"
  /\ ftxn' = EmptyCache
  /\ wlog' = wlog \cup {syncCacheTxKind}
  /\ ci' = [ci EXCEPT ![i] = -1]
  /\ cpc' = [cpc EXCEPT ![i] = "full_add"]
  /\ UNCHANGED <<fstore, fowner, jsi, files, hasdb, upl, rml, m_loaded>>
  /\ UNCHANGED <<syncvars, loadvars>>

\* Mutant: f lets the transaction complete once the index is added.
f_full_add_indexOnly(i) ==
  /\ cpc[i] = "full_add"
  /\ ftxn' = [ftxn EXCEPT !["index"] = rawIndex(jsi[i])]
  /\ wlog' = wlog \cup {syncCacheTxKind}
  /\ ci' = [ci EXCEPT ![i] = Len(keysOf(jsi[i]))]
  /\ cpc' = [cpc EXCEPT ![i] = "sc_commit"]
  /\ UNCHANGED <<fstore, fowner, jsi, files, hasdb, upl, rml, m_loaded>>
  /\ UNCHANGED <<syncvars, loadvars>>

\* f_full's f: the pending add (of the raw index when i is -1, of data
\* file ka[i] otherwise), then its onsuccess which increments i and
\* requests the next add or lets the transaction complete.  An add under
\* a key that exists fails, which aborts the transaction.
f_full_add(i) ==
  /\ cpc[i] = "full_add"
  /\ LET ka  == keysOf(jsi[i])
         key == IF ci[i] < 0 THEN "index" ELSE ka[ci[i] + 1]
         val == IF ci[i] < 0 THEN rawIndex(jsi[i]) ELSE files[i][key]
     IN  IF ftxn[key].kind # "none"
         THEN /\ abortCache(i)
              /\ UNCHANGED wlog
         ELSE /\ ftxn' = [ftxn EXCEPT ![key] = val]
              /\ wlog' = wlog \cup {syncCacheTxKind}
              /\ ci' = [ci EXCEPT ![i] = ci[i] + 1]
              /\ cpc' = [cpc EXCEPT ![i] =
                           IF ci[i] + 1 >= Len(ka) THEN "sc_commit"
                                                   ELSE "full_add"]
              /\ UNCHANGED <<fowner, hasdb, upl, rml>>
  /\ UNCHANGED <<fstore, jsi, files, m_loaded>>
  /\ UNCHANGED <<syncvars, loadvars>>

\* f_upd's f: the pending put (of the raw index when i is -1, of data file
\* upl[i] otherwise), then its onsuccess which increments i and requests
\* the next put or, past the update list, getAllKeys.
f_upd_put(i) ==
  /\ cpc[i] = "upd_put"
  /\ LET key == IF ci[i] < 0 THEN "index" ELSE upl[i][ci[i] + 1]
         val == IF ci[i] < 0 THEN rawIndex(jsi[i]) ELSE files[i][key]
     IN  ftxn' = [ftxn EXCEPT ![key] = val]
  /\ wlog' = wlog \cup {syncCacheTxKind}
  /\ ci' = [ci EXCEPT ![i] = ci[i] + 1]
  /\ cpc' = [cpc EXCEPT ![i] =
               IF ci[i] + 1 >= Len(upl[i]) THEN "upd_keys" ELSE "upd_put"]
  /\ UNCHANGED <<fstore, fowner, jsi, files, hasdb, upl, rml, m_loaded>>
  /\ UNCHANGED <<syncvars, loadvars>>

\* r.onsuccess of getAllKeys: the removal list is redone from the keys in
\* the store, and f2 requests the first delete or lets the transaction
\* complete.
f_upd_keys(i) ==
  /\ cpc[i] = "upd_keys"
  /\ LET r == actualRemovals(ftxn, jsi[i])
     IN  /\ rml' = [rml EXCEPT ![i] = r]
         /\ cpc' = [cpc EXCEPT ![i] =
                      IF 0 >= Len(r) THEN "sc_commit" ELSE "upd_del"]
  /\ ci' = [ci EXCEPT ![i] = 0]
  /\ UNCHANGED <<fstore, ftxn, fowner, jsi, files, hasdb, upl, m_loaded>>
  /\ UNCHANGED <<syncvars, wlog, loadvars>>

\* f2: the pending delete of rml[i], then its onsuccess which increments i
\* and requests the next delete or lets the transaction complete.
f_upd_delete(i) ==
  /\ cpc[i] = "upd_del"
  /\ ftxn' = [ftxn EXCEPT ![rml[i][ci[i] + 1]] = NoRecord]
  /\ wlog' = wlog \cup {syncCacheTxKind}
  /\ ci' = [ci EXCEPT ![i] = ci[i] + 1]
  /\ cpc' = [cpc EXCEPT ![i] =
               IF ci[i] + 1 >= Len(rml[i]) THEN "sc_commit" ELSE "upd_del"]
  /\ UNCHANGED <<fstore, fowner, jsi, files, hasdb, upl, rml, m_loaded>>
  /\ UNCHANGED <<syncvars, loadvars>>

\* The transaction has no request left and commits.  The handler set as
\* tr.onsuccess is not run by the completion of a transaction.
syncCacheComplete(i) ==
  /\ cpc[i] = "sc_commit"
  /\ fowner = i
  /\ fstore' = ftxn
  /\ fowner' = 0
  /\ cpc' = [cpc EXCEPT ![i] = "synced"]
  /\ endLocals(i)
  /\ UNCHANGED <<ftxn, jsi, files, hasdb, m_loaded>>
  /\ UNCHANGED <<syncvars, wlog, loadvars>>

\* Mutant: the writes made before the abort stay in the store.
syncCacheAbort_partial(i) ==
  /\ fowner = i
  /\ fstore' = ftxn
  /\ fowner' = 0
  /\ hasdb' = [hasdb EXCEPT ![i] = FALSE]
  /\ cpc' = [cpc EXCEPT ![i] = "sc_aborted"]
  /\ endLocals(i)
  /\ UNCHANGED <<ftxn, jsi, files, m_loaded>>
  /\ UNCHANGED <<syncvars, wlog, loadvars>>

\* Mutant: the abort of syncCache's transaction is reported with f_err.
syncCacheAbort_reported(i) ==
  /\ fowner = i
  /\ abortCache(i)
  /\ f_err_log' = [f_err_log EXCEPT ![i] = Append(@, "IndexedDB sync aborted")]
  /\ UNCHANGED <<fstore, jsi, files, m_loaded>>
  /\ UNCHANGED <<f_ready_n, f_status_log, reqs, cl_jsx, li, so_far,
                 all_bytes>>
  /\ UNCHANGED <<syncvars, wlog>>

\* The live transaction aborts.
syncCacheAbort(i) ==
  /\ fowner = i
  /\ abortCache(i)
  /\ UNCHANGED <<fstore, jsi, files, m_loaded>>
  /\ UNCHANGED <<syncvars, wlog, loadvars>>

\* The page is loaded again: the module state starts over and the load is
\* run once more against the same cache database.
reloadPage(i) ==
  /\ cpc[i] \in {"synced", "sc_aborted", "ready", "failed"}
  /\ cpc' = [cpc EXCEPT ![i] = "start"]
  /\ jsi' = [jsi EXCEPT ![i] = {}]
  /\ files' = [files EXCEPT ![i] = noFiles]
  /\ hasdb' = [hasdb EXCEPT ![i] = FALSE]
  /\ m_loaded' = [m_loaded EXCEPT ![i] = FALSE]
  /\ f_ready_n' = [f_ready_n EXCEPT ![i] = 0]
  /\ f_err_log' = [f_err_log EXCEPT ![i] = <<>>]
  /\ f_status_log' = [f_status_log EXCEPT ![i] = <<>>]
  /\ reqs' = [reqs EXCEPT ![i] = {}]
  /\ cl_jsx' = [cl_jsx EXCEPT ![i] = {}]
  /\ li' = [li EXCEPT ![i] = 0]
  /\ so_far' = [so_far EXCEPT ![i] = 0]
  /\ all_bytes' = [all_bytes EXCEPT ![i] = 0]
  /\ done_called' = [done_called EXCEPT ![i] = FALSE]
  /\ p1_done_n' = [p1_done_n EXCEPT ![i] = 0]
  /\ UNCHANGED <<fstore, ftxn, fowner, upl, rml, ci>>
  /\ UNCHANGED <<mainvars, govars, cxvars, wlog>>

(***************************************************************************)
(* One load followed request by request: initDB with its offline check,    *)
(* the verification of the index, dataPassTwo download by download, and    *)
(* cacheLoad.  An entry of a data file index is <<name, revision, size>>.  *)
(***************************************************************************)

\* The data file indexes the server may serve: two well-formed ones, one
\* that lists a file named "index", one that lists a file named ".gz",
\* one with a negative size and one with a revision that has a character
\* (code 12) which is not a digit.
LoadIndexes ==
  { {<<"a.gz", <<0, 2>>, 1>>},
    {<<"a.gz", <<1, 0>>, 1>>, <<"b.gz", <<0, 2>>, 2>>},
    {<<"b.gz", <<0, 2>>, 2>>, <<"index", <<0, 2>>, 1>>},
    {<<".gz", <<0, 2>>, 1>>},
    {<<"a.gz", <<0, 2>>, -1>>},
    {<<"a.gz", <<0, 12>>, 1>>, <<"b.gz", <<0, 2>>, 2>>} }

\* js[k][1]
sizeOf(js, k) == (CHOOSE e \in js : e[1] = k)[3]

\* The regular expression of verifyIndex on a revision, for revisions
\* shortened to two digits.
revisionFormat(r) == Len(r) = 2 /\ \A d \in DOMAIN r : r[d] \in 0..9

\* verifyIndex: every entry is [string, number] with the number a finite
\* integer that is zero or greater and the string in revision format.
\* The property names are not examined.
verifyIndex(js) ==
  \A e \in js :
    /\ e[3] >= 0
    /\ revisionFormat(e[2])

\* f_err(why) and f_ready() of the load of instance i.
f_err(i, why) == f_err_log' = [f_err_log EXCEPT ![i] = Append(@, why)]
f_ready(i) == f_ready_n' = [f_ready_n EXCEPT ![i] = @ + 1]

\* Mutant: an index that does not verify is handled like a failed
\* download, by cacheLoad.
initDB_index_fallBack(i, R) ==
  /\ cpc[i] = "start"
  /\ jsi' = [jsi EXCEPT ![i] = R]
  /\ cpc' = [cpc EXCEPT ![i] = IF ~verifyIndex(R) THEN "cl_connect"
                                                  ELSE "connect"]
  /\ UNCHANGED <<fstore, ftxn, fowner, files, hasdb, upl, rml, ci, m_loaded>>
  /\ UNCHANGED <<syncvars, wlog, loadvars>>

\* initDB: navigator.onLine is not false and loadGZJSON delivered the data
\* file index R.  It is verified; an index that does not verify ends the
\* load with f_err, else connectIXDB is called.
initDB_index(i, R) ==
  /\ cpc[i] = "start"
  /\ jsi' = [jsi EXCEPT ![i] = R]
  /\ IF ~verifyIndex(R)
     THEN /\ f_err(i, "Data file index not valid")
          /\ cpc' = [cpc EXCEPT ![i] = "failed"]
     ELSE /\ cpc' = [cpc EXCEPT ![i] = "connect"]
          /\ UNCHANGED f_err_log
  /\ UNCHANGED <<fstore, ftxn, fowner, files, hasdb, upl, rml, ci, m_loaded>>
  /\ UNCHANGED <<f_ready_n, f_status_log, reqs, cl_jsx, li, so_far,
                 all_bytes>>
  /\ UNCHANGED <<syncvars, wlog>>

\* initDB: navigator.onLine is false, or loadGZJSON could not download,
\* inflate or parse the index: cacheLoad, which calls connectIXDB.
initDB_offline(i) ==
  /\ cpc[i] = "start"
  /\ cpc' = [cpc EXCEPT ![i] = "cl_connect"]
  /\ UNCHANGED <<fstore, ftxn, fowner, jsi, files, hasdb, upl, rml, ci,
                 m_loaded>>
  /\ UNCHANGED <<syncvars, wlog, loadvars>>

\* A request of dataPassOne's transaction fails: its error event reaches
\* tr.onerror, and the transaction is then aborted, so that tr.onabort
\* runs as well.  f_done, called by the first of them, goes on to
\* dataPassTwo with nothing attached.
dataPassOneError(i) ==
  /\ cpc[i] = "pass1"
  /\ LET r1 == doneOnce(done_called[i], p1_done_n[i])
         r2 == doneOnce(r1.dc, r1.n)
     IN  /\ done_called' = [done_called EXCEPT ![i] = r2.dc]
         /\ p1_done_n' = [p1_done_n EXCEPT ![i] = r2.n]
  /\ cpc' = [cpc EXCEPT ![i] = "pass2"]
  /\ UNCHANGED <<fstore, ftxn, fowner, jsi, files, hasdb, upl, rml, ci,
                 m_loaded>>
  /\ UNCHANGED <<mainvars, govars, cxvars, wlog, loadvars>>

\* dataPassTwo's first loop: the sum of the sizes of the entries that have
\* no data attached.
RECURSIVE sumMissing(_, _, _)
sumMissing(js, fs, ka) ==
  IF ka = <<>> THEN 0
  ELSE (IF fs[Head(ka)].kind = "none" THEN sizeOf(js, Head(ka)) ELSE 0)
       + sumMissing(js, fs, Tail(ka))

\* f's while loop: from n on, the index of the first entry that has no
\* data attached, or the number of keys when there is none.
RECURSIVE skipLoaded(_, _, _)
skipLoaded(fs, ka, n) ==
  IF n < Len(ka) /\ fs[ka[n + 1]].kind # "none"
  THEN skipLoaded(fs, ka, n + 1)
  ELSE n

\* The string dataPassTwo gives f_status before it requests a file.
statusReport(sf, ab) ==
  IF ab > 0
  THEN [text |-> "Downloading ... %", pct |-> (sf * 100) \div ab]
  ELSE [text |-> "Downloading...", pct |-> 0]

\* The continuation initDB gives dataPassTwo as f_done: with a connection
\* syncCache is called, which creates its transaction or throws (thr), the
\* exception being caught and logged; then m_loaded is set and f_ready is
\* called.
passTwoDone(i, thr) ==
  /\ cpc' = [cpc EXCEPT ![i] = IF hasdb[i] /\ ~thr THEN "sc_wait"
                                                   ELSE "ready"]
  /\ m_loaded' = [m_loaded EXCEPT ![i] = TRUE]
  /\ f_ready(i)

\* dataPassTwo's f with the attached data fs, the loop index n, sf bytes
\* downloaded of ab: past the last key f_done is called, else a progress
\* report is made and the next missing file is requested.
dataPassTwo_f(i, fs, n, sf, ab) ==
  LET ka == keysOf(jsi[i])
      m  == skipLoaded(fs, ka, n)
  IN  /\ files' = [files EXCEPT ![i] = fs]
      /\ li' = [li EXCEPT ![i] = m]
      /\ so_far' = [so_far EXCEPT ![i] = sf]
      /\ IF m >= Len(ka)
         THEN /\ \E thr \in BOOLEAN : passTwoDone(i, thr)
              /\ UNCHANGED <<f_status_log, reqs>>
         ELSE /\ f_status_log' =
                   [f_status_log EXCEPT ![i] =
                      Append(@, statusReport(sf, ab))]
              /\ reqs' = [reqs EXCEPT ![i] = @ \cup {ka[m + 1]}]
              /\ cpc' = [cpc EXCEPT ![i] = "fetch"]
              /\ UNCHANGED <<m_loaded, f_ready_n>>

\* dataPassTwo is called: the statistics are initialized and f runs for the
\* first time.
dataPassTwo_begin(i) ==
  /\ cpc[i] = "pass2"
  /\ LET ab == sumMissing(jsi[i], files[i], keysOf(jsi[i]))
     IN  /\ all_bytes' = [all_bytes EXCEPT ![i] = ab]
         /\ dataPassTwo_f(i, files[i], 0, 0, ab)
  /\ UNCHANGED <<fstore, ftxn, fowner, jsi, hasdb, upl, rml, ci>>
  /\ UNCHANGED <<f_err_log, cl_jsx>>
  /\ UNCHANGED <<syncvars, wlog>>

\* req.onreadystatechange with status 200: so_far grows by the size of the
\* entry, the data is attached, i is incremented and f runs again.
dataPassTwo_loaded(i) ==
  /\ cpc[i] = "fetch"
  /\ LET k == keysOf(jsi[i])[li[i] + 1]
     IN  dataPassTwo_f(i,
           [files[i] EXCEPT ![k] = fileData(k, revOf(jsi[i], k))],
           li[i] + 1,
           so_far[i] + sizeOf(jsi[i], k),
           all_bytes[i])
  /\ UNCHANGED <<fstore, ftxn, fowner, jsi, hasdb, upl, rml, ci>>
  /\ UNCHANGED <<f_err_log, cl_jsx, all_bytes>>
  /\ UNCHANGED <<syncvars, wlog>>

\* Mutant: after f_err the pass goes on to its continuation.
dataPassTwo_failed_goOn(i) ==
  /\ cpc[i] = "fetch"
  /\ f_err(i, "Failed to download")
  /\ \E thr \in BOOLEAN : passTwoDone(i, thr)
  /\ UNCHANGED <<fstore, ftxn, fowner, jsi, files, hasdb, upl, rml, ci>>
  /\ UNCHANGED <<f_status_log, reqs, cl_jsx, li, so_far, all_bytes>>
  /\ UNCHANGED <<syncvars, wlog>>

\* req.onreadystatechange with another status: f_err, and nothing more.
dataPassTwo_failed(i) ==
  /\ cpc[i] = "fetch"
  /\ f_err(i, "Failed to download")
  /\ cpc' = [cpc EXCEPT ![i] = "failed"]
  /\ UNCHANGED <<fstore, ftxn, fowner, jsi, files, hasdb, upl, rml, ci,
                 m_loaded>>
  /\ UNCHANGED <<f_ready_n, f_status_log, reqs, cl_jsx, li, so_far,
                 all_bytes>>
  /\ UNCHANGED <<syncvars, wlog>>

(***************************************************************************)
(* cacheLoad                                                               *)
(***************************************************************************)

\* connectIXDB gave cacheLoad the handle: the readonly transaction is made
\* and get("index") is requested.
cacheLoad_db(i) ==
  /\ cpc[i] = "cl_connect"
  /\ hasdb' = [hasdb EXCEPT ![i] = TRUE]
  /\ cpc' = [cpc EXCEPT ![i] = "cl_index"]
  /\ UNCHANGED <<fstore, ftxn, fowner, jsi, files, upl, rml, ci, m_loaded>>
  /\ UNCHANGED <<syncvars, wlog, loadvars>>

\* connectIXDB could not connect: f_err.
cacheLoad_nodb(i) ==
  /\ cpc[i] = "cl_connect"
  /\ f_err(i, "Offline and failed to load from cache")
  /\ cpc' = [cpc EXCEPT ![i] = "failed"]
  /\ UNCHANGED <<fstore, ftxn, fowner, jsi, files, hasdb, upl, rml, ci,
                 m_loaded>>
  /\ UNCHANGED <<f_ready_n, f_status_log, reqs, cl_jsx, li, so_far,
                 all_bytes>>
  /\ UNCHANGED <<syncvars, wlog>>

\* Mutant: without a usable stored index cacheLoad reports an empty
\* dataset as loaded.
cacheLoad_read_lenient(i) ==
  /\ cpc[i] = "cl_index"
  /\ fowner = 0
  /\ LET ix == readIndex(fstore["index"])
         jx == IF Has(ix) THEN Val(ix) ELSE {}
         ka == keysOf(jx)
         n  == skipLoaded(fstore, ka, 0)
     IN  /\ li' = [li EXCEPT ![i] = n]
         /\ IF n >= Len(ka)
            THEN /\ cl_jsx' = [cl_jsx EXCEPT ![i] = jx]
                 /\ files' = [files EXCEPT ![i] =
                                [k \in Range(entryNames) |->
                                   IF inIndex(k, jx) THEN fstore[k]
                                                     ELSE NoRecord]]
                 /\ m_loaded' = [m_loaded EXCEPT ![i] = TRUE]
                 /\ f_ready(i)
                 /\ cpc' = [cpc EXCEPT ![i] = "ready"]
                 /\ UNCHANGED f_err_log
            ELSE /\ f_err(i, "Offline and failed to load from cache")
                 /\ cpc' = [cpc EXCEPT ![i] = "failed"]
                 /\ UNCHANGED <<cl_jsx, files, m_loaded, f_ready_n>>
  /\ UNCHANGED <<fstore, ftxn, fowner, jsi, hasdb, upl, rml, ci>>
  /\ UNCHANGED <<f_status_log, reqs, so_far, all_bytes>>
  /\ UNCHANGED <<syncvars, wlog>>

\* cacheLoad's readonly transaction, which runs when no readwrite
\* transaction on fstore is live.  r.onsuccess of get("index"): without a
\* result the transaction is aborted and tr.onabort calls f_err; a result
\* that does not inflate, parse or verify makes the handler call f_err.
\* Else f gets the files of the stored index one after the other: a file
\* without record makes the handler call f_err; past the last key m_files
\* is filled, m_loaded is set and f_ready is called.
cacheLoad_read(i) ==
  /\ cpc[i] = "cl_index"
  /\ fowner = 0
  /\ LET ix == readIndex(fstore["index"])
     IN  IF ~Has(ix)
         THEN /\ f_err(i, "Offline and failed to load from cache")
              /\ cpc' = [cpc EXCEPT ![i] = "failed"]
              /\ UNCHANGED <<cl_jsx, files, li, m_loaded, f_ready_n>>
         ELSE LET jx == Val(ix)
                  ka == keysOf(jx)
                  n  == skipLoaded(fstore, ka, 0)
              IN  /\ cl_jsx' = [cl_jsx EXCEPT ![i] = jx]
                  /\ li' = [li EXCEPT ![i] = n]
                  /\ IF n >= Len(ka)
                     THEN /\ files' = [files EXCEPT ![i] =
                                         [k \in Range(entryNames) |->
                                            IF inIndex(k, jx) THEN fstore[k]
                                                              ELSE NoRecord]]
                          /\ m_loaded' = [m_loaded EXCEPT ![i] = TRUE]
                          /\ f_ready(i)
                          /\ cpc' = [cpc EXCEPT ![i] = "ready"]
                          /\ UNCHANGED f_err_log
                     ELSE /\ f_err(i, "Offline and failed to load from cache")
                          /\ cpc' = [cpc EXCEPT ![i] = "failed"]
                          /\ UNCHANGED <<files, m_loaded, f_ready_n>>
  /\ UNCHANGED <<fstore, ftxn, fowner, jsi, hasdb, upl, rml, ci>>
  /\ UNCHANGED <<f_status_log, reqs, so_far, all_bytes>>
  /\ UNCHANGED <<syncvars, wlog>>

\* The pending request of cacheLoad's transaction fails: the error event
\* reaches tr.onerror, which calls f_err, and the transaction is then
\* aborted, so that tr.onabort calls f_err as well.
cacheLoad_error(i) ==
  /\ cpc[i] = "cl_index"
  /\ f_err_log' = [f_err_log EXCEPT ![i] =
                     @ \o <<"Offline and failed to load from cache",
                            "Offline and failed to load from cache">>]
  /\ cpc' = [cpc EXCEPT ![i] = "failed"]
  /\ UNCHANGED <<fstore, ftxn, fowner, jsi, files, hasdb, upl, rml, ci,
                 m_loaded>>
  /\ UNCHANGED <<f_ready_n, f_status_log, reqs, cl_jsx, li, so_far,
                 all_bytes>>
  /\ UNCHANGED <<syncvars, wlog>>

(***************************************************************************)
(* The record loader's go taken by itself, with handlers f_ce and f_we     *)
(* that may call their done callback, call their error callback or throw   *)
(***************************************************************************)

\* What a handler does with the block of records it is given.
Behaviours == {"done", "error", "throw"}

\* go is called: the download of the index is started.
go_call(i) ==
  /\ g_pc[i] = "idle"
  /\ g_pc' = [g_pc EXCEPT ![i] = "index"]
  /\ UNCHANGED <<g_i, g_log>>
  /\ UNCHANGED <<mainvars, wlog, cxvars, p1vars>>
  /\ UNCHANGED <<fstore, ftxn, fowner, cpc, jsi, files, hasdb, upl, rml, ci,
                 m_loaded, loadvars>>

\* go's f: past the end of ca f_done is invoked, else the download of the
\* data file ca[i] is started.
go_next(i, k) ==
  IF k > Len(ca)
  THEN /\ g_pc' = [g_pc EXCEPT ![i] = "done"]
       /\ g_log' = [g_log EXCEPT ![i] = Append(@, "f_done")]
  ELSE /\ g_pc' = [g_pc EXCEPT ![i] = "file"]
       /\ UNCHANGED g_log

\* The index was downloaded and parsed: inside the try block ca is built
\* and f is called for the first time.
go_index(i) ==
  /\ g_pc[i] = "index"
  /\ g_i' = [g_i EXCEPT ![i] = 1]
  /\ go_next(i, 1)
  /\ UNCHANGED <<mainvars, wlog, cxvars, p1vars>>
  /\ UNCHANGED <<fstore, ftxn, fowner, cpc, jsi, files, hasdb, upl, rml, ci,
                 m_loaded, loadvars>>

\* The index or a data file could not be downloaded, inflated or parsed,
\* or the index is not of the expected form (a fault caught by the try
\* block): f_err is invoked.
go_error(i) ==
  /\ g_pc[i] \in {"index", "file"}
  /\ g_pc' = [g_pc EXCEPT ![i] = "failed"]
  /\ g_log' = [g_log EXCEPT ![i] = Append(@, "f_err")]
  /\ UNCHANGED g_i
  /\ UNCHANGED <<mainvars, wlog, cxvars, p1vars>>
  /\ UNCHANGED <<fstore, ftxn, fowner, cpc, jsi, files, hasdb, upl, rml, ci,
                 m_loaded, loadvars>>

\* loadGZJSON's request handler calls back with the data file ca[i]: i is
\* incremented and the handler of the file's type is invoked with f and
\* f_err.  The handler calls f, calls f_err, or throws; the call is made
\* from the request's event handler, outside go's try block, so that an
\* exception leaves the event handler and go invokes nothing further.
go_data(i, b) ==
  /\ g_pc[i] = "file"
  /\ g_i' = [g_i EXCEPT ![i] = g_i[i] + 1]
  /\ LET h == IF ca[g_i[i]] = "char" THEN "f_ce" ELSE "f_we"
     IN  CASE b = "done" ->
                IF g_i[i] + 1 > Len(ca)
                THEN /\ g_pc' = [g_pc EXCEPT ![i] = "done"]
                     /\ g_log' = [g_log EXCEPT ![i] = @ \o <<h, "f_done">>]
                ELSE /\ g_pc' = [g_pc EXCEPT ![i] = "file"]
                     /\ g_log' = [g_log EXCEPT ![i] = Append(@, h)]
           [] b = "error" ->
                /\ g_pc' = [g_pc EXCEPT ![i] = "failed"]
                /\ g_log' = [g_log EXCEPT ![i] = @ \o <<h, "f_err">>]
           [] OTHER ->
                /\ g_pc' = [g_pc EXCEPT ![i] = "thrown"]
                /\ g_log' = [g_log EXCEPT ![i] = @ \o <<h, "throw">>]
  /\ UNCHANGED <<mainvars, wlog, cxvars, p1vars>>
  /\ UNCHANGED <<fstore, ftxn, fowner, cpc, jsi, files, hasdb, upl, rml, ci,
                 m_loaded, loadvars>>

(***************************************************************************)
(* connectIXDB taken by itself: the events of its open request             *)
(***************************************************************************)

\* What the steps of connectIXDB leave alone.
cxframe == <<mainvars, wlog, govars, p1vars, fstore, ftxn, fowner, cpc, jsi,
             files, hasdb, upl, rml, ci, m_loaded, loadvars>>

\* connectIXDB is called and indexedDB.open returns the request odr, on
\* which the four handlers are set.
cx_open(i) ==
  /\ x_pc[i] = "idle"
  /\ x_pc' = [x_pc EXCEPT ![i] = "pending"]
  /\ UNCHANGED <<x_upg, x_calls, cxframe>>

\* connectIXDB is called and indexedDB.open throws: the catch block calls
\* f_nodb.
cx_throw(i) ==
  /\ x_pc[i] = "idle"
  /\ x_pc' = [x_pc EXCEPT ![i] = "done"]
  /\ x_calls' = [x_calls EXCEPT ![i] = Append(@, "f_nodb")]
  /\ UNCHANGED <<x_upg, cxframe>>

\* odr.onblocked: f_nodb.  The request stays pending: the upgrade goes on
\* once the other connections are closed.
cx_blocked(i) ==
  /\ x_pc[i] = "pending"
  /\ ~x_upg[i]
  /\ x_pc' = [x_pc EXCEPT ![i] = "blocked"]
  /\ x_calls' = [x_calls EXCEPT ![i] = Append(@, "f_nodb")]
  /\ UNCHANGED <<x_upg, cxframe>>

\* odr.onupgradeneeded: the object stores are deleted and fstore is made.
cx_upgradeneeded(i) ==
  /\ x_pc[i] \in {"pending", "blocked"}
  /\ ~x_upg[i]
  /\ x_upg' = [x_upg EXCEPT ![i] = TRUE]
  /\ UNCHANGED <<x_pc, x_calls, cxframe>>

\* odr.onerror: f_nodb.
cx_error(i) ==
  /\ x_pc[i] \in {"pending", "blocked"}
  /\ x_pc' = [x_pc EXCEPT ![i] = "done"]
  /\ x_calls' = [x_calls EXCEPT ![i] = Append(@, "f_nodb")]
  /\ UNCHANGED <<x_upg, cxframe>>

\* odr.onsuccess: f_db with the handle.
cx_success(i) ==
  /\ x_pc[i] \in {"pending", "blocked"}
  /\ x_pc' = [x_pc EXCEPT ![i] = "done"]
  /\ x_calls' = [x_calls EXCEPT ![i] = Append(@, "f_db")]
  /\ UNCHANGED <<x_upg, cxframe>>

(***************************************************************************)
(* Specification                                                           *)
(***************************************************************************)

Init ==
  /\ store = EmptyDB
  /\ txn = EmptyDB
  /\ owner = 0
  /\ pc = [i \in Inst |-> "start"]
  /\ m_conn = [i \in Inst |-> FALSE]
  /\ m_built = [i \in Inst |-> FALSE]
  /\ m_dbimage = [i \in Inst |-> NoImage]
  /\ need_reload = [i \in Inst |-> FALSE]
  /\ file_dataver = [i \in Inst |-> <<>>]
  /\ phase = [i \in Inst |-> "none"]
  /\ idx = [i \in Inst |-> 0]
  /\ reason = [i \in Inst |-> ""]
  /\ passed = [i \in Inst |-> FALSE]
  /\ wlog = {}
  /\ queue = <<>>
  /\ n_sync = [i \in Inst |-> 0]
  /\ init_done = [i \in Inst |-> FALSE]
  /\ began_empty = [i \in Inst |-> FALSE]
  /\ st_calls = [i \in Inst |-> <<>>]
  /\ fstore = EmptyCache
  /\ ftxn = EmptyCache
  /\ fowner = 0
  /\ cpc = [i \in Inst |-> "start"]
  /\ jsi = [i \in Inst |-> {}]
  /\ files = [i \in Inst |-> noFiles]
  /\ hasdb = [i \in Inst |-> FALSE]
  /\ upl = [i \in Inst |-> <<>>]
  /\ rml = [i \in Inst |-> <<>>]
  /\ ci = [i \in Inst |-> 0]
  /\ m_loaded = [i \in Inst |-> FALSE]
  /\ f_ready_n = [i \in Inst |-> 0]
  /\ f_err_log = [i \in Inst |-> <<>>]
  /\ f_status_log = [i \in Inst |-> <<>>]
  /\ reqs = [i \in Inst |-> {}]
  /\ cl_jsx = [i \in Inst |-> {}]
  /\ li = [i \in Inst |-> 0]
  /\ so_far = [i \in Inst |-> 0]
  /\ all_bytes = [i \in Inst |-> 0]
  /\ g_pc = [i \in Inst |-> "idle"]
  /\ g_i = [i \in Inst |-> 0]
  /\ g_log = [i \in Inst |-> <<>>]
  /\ done_called = [i \in Inst |-> FALSE]
  /\ p1_done_n = [i \in Inst |-> 0]
  /\ x_pc = [i \in Inst |-> "idle"]
  /\ x_upg = [i \in Inst |-> FALSE]
  /\ x_calls = [i \in Inst |-> <<>>]

Next ==
  \E i \in Inst :
    \/ InitDB(i)
    \/ OpenSuccess(i)
    \/ OpenError(i)
    \/ \E dvr \in DataVers : CheckDataverDone(i, dvr)
    \/ CheckDataverError(i)
    \/ SyncStart(i)
    \/ SyncGotImage(i)
    \/ SyncAdded(i)
    \/ SyncChkDataver(i)
    \/ SyncGotDataver(i)
    \/ SyncPutIncr(i)
    \/ SyncPutRedo(i)
    \/ SyncDelDataver(i)
    \/ SyncComplete(i)
    \/ PrepStart(i)
    \/ PrepGotImage(i)
    \/ PrepFailComplete(i)
    \/ ClearSuccess(i)
    \/ ClearComplete(i)
    \/ LoadComplete(i)
    \/ SetDataverComplete(i)
    \/ Go(i)
    \/ GoError(i)
    \/ TxAbort(i)

Spec == Init /\ [][Next]_vars

\* The instances running the loader against the shared cache database.
NextCache ==
  \E i \in Inst :
    \/ \E R \in RemoteIndexes : loaderInitDB(i, R)
    \/ connectIXDB_db(i)
    \/ connectIXDB_nodb(i)
    \/ dataPassOne(i)
    \/ dataPassTwo(i)
    \/ dataPassTwoError(i)
    \/ syncCacheStart(i)
    \/ syncCacheGotIndex(i)
    \/ f_full_clear(i)
    \/ f_full_add(i)
    \/ f_upd_put(i)
    \/ f_upd_keys(i)
    \/ f_upd_delete(i)
    \/ syncCacheComplete(i)
    \/ syncCacheAbort(i)
    \/ reloadPage(i)

SpecCache == Init /\ [][NextCache]_vars

\* The sessions whose loads are followed request by request, page load
\* after page load, against the shared cache database.
NextLoad ==
  \E i \in Loaders :
    \/ \E R \in LoadIndexes : initDB_index(i, R)
    \/ initDB_offline(i)
    \/ connectIXDB_db(i)
    \/ connectIXDB_nodb(i)
    \/ dataPassOne(i)
    \/ dataPassOneError(i)
    \/ dataPassTwo_begin(i)
    \/ dataPassTwo_loaded(i)
    \/ dataPassTwo_failed(i)
    \/ cacheLoad_db(i)
    \/ cacheLoad_nodb(i)
    \/ cacheLoad_read(i)
    \/ cacheLoad_error(i)
    \/ syncCacheStart(i)
    \/ syncCacheGotIndex(i)
    \/ f_full_clear(i)
    \/ f_full_add(i)
    \/ f_upd_put(i)
    \/ f_upd_keys(i)
    \/ f_upd_delete(i)
    \/ syncCacheComplete(i)
    \/ syncCacheAbort(i)
    \/ reloadPage(i)

SpecLoad == Init /\ [][NextLoad]_vars

\* The main module with reloadDB as it stands in the source: the handlers
\* given to go write nothing and the end of the reload neither writes
\* dataver nor calls f_done, so that no database ever holds a dataver and
\* the steps of syncTransaction that follow a defined dataver do not occur.
NextWritten ==
  \E i \in Inst :
    \/ InitDB(i)
    \/ OpenSuccess(i)
    \/ OpenError(i)
    \/ \E dvr \in DataVers : CheckDataverDone(i, dvr)
    \/ CheckDataverError(i)
    \/ SyncStart(i)
    \/ SyncGotImage(i)
    \/ SyncAdded(i)
    \/ SyncChkDataver(i)
    \/ SyncGotDataver(i)
    \/ SyncPutIncr(i)
    \/ SyncComplete(i)
    \/ SyncRequestError(i)
    \/ PrepStart(i)
    \/ PrepGotImage(i)
    \/ PrepFailComplete(i)
    \/ ClearSuccess(i)
    \/ ClearComplete(i)
    \/ go_f(i)
    \/ GoError(i)
    \/ TxAbort(i)

SpecWritten == Init /\ [][NextWritten]_vars

\* Calls of go with arbitrary handlers.
NextGo ==
  \E i \in Inst :
    \/ go_call(i)
    \/ go_index(i)
    \/ go_error(i)
    \/ \E b \in Behaviours : go_data(i, b)

SpecGo == Init /\ [][NextGo]_vars

\* Calls of connectIXDB, one by each instance.
NextConnect ==
  \E i \in Inst :
    \/ cx_open(i)
    \/ cx_throw(i)
    \/ cx_blocked(i)
    \/ cx_upgradeneeded(i)
    \/ cx_error(i)
    \/ cx_success(i)

SpecConnect == Init /\ [][NextConnect]_vars

(***************************************************************************)
(* Properties of the synchronization protocol                              *)
(***************************************************************************)

\* The stored image, read as zero when it is not defined.
Img(db) == IF Has(db.vars.image) THEN Val(db.vars.image) ELSE 0

\* Positions inside the initial transaction.
SyncPCs == {"sync_get_image", "sync_added", "sync_chk_dataver",
            "sync_get_dataver", "sync_put_incr", "sync_put_redo",
            "sync_del_dataver", "sync_commit"}

\* Positions in which the prefix has handed the transaction to f_ready.
PassedPCs == {"clear", "tx_commit"}

\* Positions of a transaction obtained through prepTrans.
PrepPCs == {"prep_wait", "prep_get_image", "prep_fail"} \cup PassedPCs

\* Positions of a reload in progress.
ReloadPCs == PrepPCs \cup {"go"}

\* The stored dataver is the same as or newer than the data files'.
StoredCurrent(db, i) ==
  /\ Has(db.vars.image)
  /\ Has(db.vars.dataver)
  /\ ~StrLess(Val(db.vars.dataver), file_dataver[i])

\* C1: a transaction made by prepTrans is handed to f_ready only when the
\* stored image is defined and equal to m_dbimage; when the prefix reported
\* DBSyncError the stored image differs from m_dbimage, the transaction was
\* not handed to f_ready and it has changed nothing.
C1_PrefixGuard ==
  \A i \in Inst :
    /\ pc[i] \in PassedPCs =>
         /\ owner = i /\ passed[i]
         /\ Has(txn.vars.image) /\ Val(txn.vars.image) = m_dbimage[i]
    /\ pc[i] = "prep_fail" =>
         /\ owner = i /\ ~passed[i]
         /\ reason[i] = "DBSyncError"
         /\ Img(txn) # m_dbimage[i]
         /\ txn = store

C1_Witness ==
  \E i \in Inst :
    pc[i] = "prep_fail" /\ Has(txn.vars.image) /\ Img(txn) # m_dbimage[i]

\* C2: when the requests of the initial transaction are done, need_reload
\* is false exactly when image and dataver were both defined and the stored
\* dataver was not older than the data files' dataver; f_ready follows
\* only need_reload = false and a reload only need_reload = true.
C2_SyncDecision ==
  \A i \in Inst :
    /\ pc[i] = "sync_commit" => (~need_reload[i] <=> StoredCurrent(store, i))
    /\ pc[i] = "done" /\ ~m_built[i] => ~need_reload[i]
    /\ pc[i] \in ReloadPCs => need_reload[i]

C2_Witness ==
  \E i \in Inst :
    /\ pc[i] = "done" /\ ~m_built[i] /\ init_done[i]
    /\ Has(store.vars.dataver)
    /\ Val(store.vars.dataver) = file_dataver[i]

\* C3: when the initial transaction decided on a reload, then within that
\* transaction dataver is gone, image is the old image plus one (1 when it
\* was not defined), m_dbimage is the new stored image, and no data store
\* has been touched.
C3_ReloadBegins ==
  \A i \in Inst :
    pc[i] = "sync_commit" /\ need_reload[i] =>
      /\ ~Has(txn.vars.dataver)
      /\ Img(txn) = Img(store) + 1
      /\ m_dbimage[i] = Img(txn)
      /\ txn.cinfo = store.cinfo
      /\ txn.cread = store.cread
      /\ txn.words = store.words

C3_Witness ==
  \E i \in Inst :
    /\ pc[i] = "sync_commit" /\ need_reload[i]
    /\ Has(store.vars.dataver) /\ ~Has(txn.vars.dataver)
    /\ Img(txn) = Img(store) + 1

\* C4: when image and dataver are defined and the stored dataver is the
\* same as or newer than the data files', the initial transaction leaves
\* the database as it was and m_dbimage is the stored image.
C4_KeepUnchanged ==
  \A i \in Inst :
    pc[i] = "sync_commit" /\ StoredCurrent(store, i) =>
      /\ txn = store
      /\ m_dbimage[i] = Val(store.vars.image)

C4_Witness ==
  \E i \in Inst :
    /\ pc[i] = "sync_commit" /\ StoredCurrent(store, i)
    /\ StrLess(file_dataver[i], Val(store.vars.dataver))
    /\ txn = store

\* C5: the stored image never decreases, it strictly increases when an
\* initial transaction that decided on a reload commits, and no step of
\* prepTrans or reloadDB changes it.
C5_EpochMonotone ==
  [][/\ Img(store') >= Img(store)
     /\ \A i \in Inst :
          /\ pc[i] = "sync_commit" /\ need_reload[i]
               /\ pc'[i] \notin {"sync_commit", "failed"}
               => Img(store') > Img(store)
          /\ pc[i] \in ReloadPCs /\ pc'[i] # pc[i]
               => store'.vars.image = store.vars.image]_vars

C5_Witness ==
  \E i \in Inst :
    Img(store) >= 2 /\ pc[i] = "failed" /\ reason[i] = "abort"
      /\ init_done[i]

\* Instance i began a reload that has not ended.
Reloading(i) == init_done[i] /\ need_reload[i] /\ pc[i] \in ReloadPCs

\* C6: while an instance is in the midst of the current reload, the initial
\* transaction of another instance increments image and decides on a
\* reload; and an instance whose remembered image is no longer the stored
\* one gets DBSyncError from its next prefix, is never handed a
\* transaction and writes nothing.
C6_NewerInstanceWins ==
  \A i \in Inst :
    /\ \A j \in Inst \ {i} :
         Reloading(i) /\ m_dbimage[i] = Img(store) /\ pc[j] = "sync_commit"
           => /\ need_reload[j]
              /\ Img(txn) = Img(store) + 1
              /\ m_dbimage[j] = Img(txn)
    /\ Reloading(i) /\ m_dbimage[i] # Img(store) =>
         /\ pc[i] \notin PassedPCs
         /\ owner = i => txn = store
         /\ owner = i /\ pc[i] # "prep_get_image" =>
              pc[i] = "prep_fail" /\ reason[i] = "DBSyncError"

C6_Witness ==
  \E i \in Inst : \E j \in Inst \ {i} :
    /\ pc[i] = "failed" /\ reason[i] = "DBSyncError" /\ phase[i] = "load"
    /\ Reloading(j) /\ m_dbimage[j] = Img(store)
    /\ m_dbimage[j] > m_dbimage[i]

\* Instance i's initial transaction defined image as 1.
SetOne(i) == init_done[i] /\ need_reload[i] /\ m_dbimage[i] = 1

\* Instances whose initial transaction was created while image was not
\* defined and has committed.
FromEmpty == {i \in Inst : began_empty[i] /\ init_done[i]}

\* C7 as stated: of two instances that ran their initial transaction
\* against a database without image, exactly one set image to 1 and it
\* proceeds, and the prefix of the other one raises DBSyncError.
C7_Original ==
  \A i \in FromEmpty : \A j \in FromEmpty \ {i} :
    SetOne(i) =>
      /\ ~SetOne(j)
      /\ reason[i] # "DBSyncError"
      /\ pc[j] \notin PassedPCs

\* C7 as amended: exactly one of them, the first to run, defines image as
\* 1; every other one finds image without dataver, increments it and goes
\* on to reload with the larger image; and it is the instance that defined
\* image as 1 that is never handed a transaction by prepTrans.
C7_Amended ==
  /\ FromEmpty # {} => Cardinality({i \in FromEmpty : SetOne(i)}) = 1
  /\ \A i \in FromEmpty : \A j \in FromEmpty \ {i} :
       SetOne(i) =>
         /\ need_reload[j]
         /\ m_dbimage[j] >= 2
         /\ Img(store) >= 2
         /\ pc[i] \in {"prep_wait", "prep_get_image", "prep_fail", "failed"}

C7_Witness ==
  \E i \in FromEmpty : \E j \in FromEmpty \ {i} :
    /\ SetOne(i) /\ pc[i] = "failed" /\ reason[i] = "DBSyncError"
    /\ pc[j] \in PassedPCs

\* C8 (shared-resource policy): every transaction that has mutated a
\* shared store (clear, add, put or delete) is the initial transaction or a
\* transaction that passed the prefix check.  It does not hold of the
\* loader: syncCache clears, adds, puts and deletes in a transaction that
\* reads no image at all.
C8_GuardedWrites == wlog \subseteq {"initial", "prefixed"}

\* C9: an instance creates at most one initial transaction, and it holds
\* or waits for a transaction made by prepTrans only after its initial
\* transaction has committed and set m_dbimage.
C9_InitialFirst ==
  \A i \in Inst :
    /\ n_sync[i] <= 1
    /\ pc[i] \in PrepPCs =>
         init_done[i] /\ n_sync[i] = 1 /\ m_dbimage[i] >= 1
    /\ pc[i] \in SyncPCs \cup {"sync_wait"} => ~init_done[i]

C9_Witness ==
  \E i \in Inst :
    pc[i] \in PassedPCs /\ init_done[i] /\ n_sync[i] = 1

\* C10: whenever image is not defined, dataver is not defined and the data
\* stores are empty, in the committed database and in the view of the live
\* transaction.
C10_NoImageEmpty ==
  \A db \in {store, txn} :
    ~Has(db.vars.image) =>
      /\ ~Has(db.vars.dataver)
      /\ db.cinfo = {} /\ db.cread = {} /\ db.words = {}

C10_Witness ==
  /\ ~Has(store.vars.image)
  /\ \E i \in Inst :
       pc[i] = "failed" /\ reason[i] = "abort" /\ m_dbimage[i] = 1

\* The data stores when every data file was loaded at data version v.
fullDataset(n, v) == {<<k, v>> : k \in {f \in 1..Len(ca) : n \in fileStores(f)}}

\* Instance i began the reload of the current image and has not ended it.
CurrentReload(i) ==
  init_done[i] /\ need_reload[i] /\ ~m_built[i] /\ m_dbimage[i] = Img(store)

\* C11: whenever dataver is defined, image is defined and every data store
\* holds the records of all data files at exactly that data version; and
\* while the reload of the current image has not ended (in progress, failed
\* or aborted), the committed database has no dataver.
C11_DataverComplete ==
  /\ \A db \in {store, txn} :
       Has(db.vars.dataver) =>
         /\ Has(db.vars.image)
         /\ \A n \in {"cinfo", "cread", "words"} :
              db[n] = fullDataset(n, Val(db.vars.dataver))
  /\ \A i \in Inst : CurrentReload(i) => ~Has(store.vars.dataver)

C11_Witness ==
  /\ Has(store.vars.dataver)
  /\ Img(store) >= 2
  /\ \E i \in Inst : m_built[i] /\ Val(store.vars.dataver) = file_dataver[i]
  /\ \E i \in Inst : pc[i] = "failed" /\ init_done[i] /\ need_reload[i]

(***************************************************************************)
(* Properties of the loader and its cache                                  *)
(***************************************************************************)

\* The index stored in db as a reader gets it: <<jsx>> or <<>>.
storedIndex(db) == readIndex(db["index"])

\* C12: syncCache reads the stored index again before it builds its lists
\* and before any write, so that a commit never loses what another
\* instance committed before it: the revision the committed index records
\* for a file never goes back.  It does not hold: a committer whose HTTP
\* index is the older one puts that index over the newer stored one.
C12_NoLostUpdate ==
  [][\A k \in Range(fileNames) :
       /\ Has(storedIndex(fstore)) /\ inIndex(k, Val(storedIndex(fstore)))
       /\ Has(storedIndex(fstore')) /\ inIndex(k, Val(storedIndex(fstore')))
       => ~StrLess(revOf(Val(storedIndex(fstore')), k),
                   revOf(Val(storedIndex(fstore)), k))]_vars

\* The names of the files in index js.
names(js) == {e[1] : e \in js}

\* syncCache of instance i has built its lists from the stored index and
\* has not written yet.
ListsBuilt(i) ==
  /\ fowner = i
  /\ Has(storedIndex(ftxn))
  /\ ftxn = fstore
  /\ \/ cpc[i] = "upd_put" /\ ci[i] = -1
     \/ cpc[i] = "sc_commit"

\* C13: the update list built from a valid stored index L and the HTTP
\* index R holds, once each, the files of R that L does not have and the
\* files of both whose revision in L is strictly older than in R; a file
\* whose stored revision is the same or newer is not on it.
C13_UpdateList ==
  \A i \in Inst :
    ListsBuilt(i) =>
      LET L == Val(storedIndex(ftxn))
          R == jsi[i]
      IN  /\ Range(upl[i]) =
               (names(R) \ names(L)) \cup
               {k \in names(R) \cap names(L) :
                  StrLess(revOf(L, k), revOf(R, k))}
          /\ Len(upl[i]) = Cardinality(Range(upl[i]))
          /\ \A k \in names(R) \cap names(L) :
               ~StrLess(revOf(L, k), revOf(R, k)) => k \notin Range(upl[i])

C13_Witness ==
  \E i \in Inst :
    /\ ListsBuilt(i)
    /\ upl[i] = <<"a.gz">>
    /\ rml[i] = <<>>
    /\ inIndex("b.gz", jsi[i])
    /\ inIndex("b.gz", Val(storedIndex(ftxn)))
    /\ revOf(jsi[i], "b.gz") = revOf(Val(storedIndex(ftxn)), "b.gz")

\* The file keys that have a record in db.
fileKeys(db) == {k \in Range(fileNames) : db[k].kind # "none"}

\* C14: the removal list built from a valid stored index L and the HTTP
\* index R holds, once each, the files of L that R does not have; the list
\* f_upd deletes from is the same set, and when the transaction is ready to
\* commit the keys it has deleted from the store are exactly those files.
C14_RemovalList ==
  \A i \in Inst :
    /\ ListsBuilt(i) =>
         /\ Range(rml[i]) = names(Val(storedIndex(ftxn))) \ names(jsi[i])
         /\ Len(rml[i]) = Cardinality(Range(rml[i]))
    /\ fowner = i /\ Has(storedIndex(fstore)) =>
         LET gone == names(Val(storedIndex(fstore))) \ names(jsi[i])
         IN  /\ cpc[i] = "upd_del" => Range(rml[i]) = gone
             /\ cpc[i] = "sc_commit" =>
                  fileKeys(fstore) \ fileKeys(ftxn) = gone

C14_Witness ==
  \E i \in Inst :
    /\ fowner = i /\ cpc[i] = "sc_commit"
    /\ Has(storedIndex(fstore))
    /\ upl[i] = <<>>
    /\ rml[i] = <<"a.gz">>
    /\ "a.gz" \in fileKeys(fstore) \ fileKeys(ftxn)
    /\ "b.gz" \in fileKeys(ftxn)

\* Positions of syncCache's transaction after the index was read.
AfterIndexPCs == {"full_clear", "full_add", "upd_put", "upd_keys", "upd_del",
                  "sc_commit"}

\* C15: when a sync has committed for the index R and syncCache runs again
\* with the same R, both lists are empty, the transaction goes from the
\* read of the index straight to its end, and it issues no clear, add, put
\* or delete.
C15_Idempotent ==
  \A i \in Inst :
    /\ fowner = i
    /\ cpc[i] \in AfterIndexPCs
    /\ storedIndex(fstore) = <<jsi[i]>>
    => /\ cpc[i] = "sc_commit"
       /\ upl[i] = <<>>
       /\ rml[i] = <<>>
       /\ ftxn = fstore

C15_Witness ==
  \E i \in Inst : \E j \in Inst \ {i} :
    /\ cpc[j] = "synced" /\ jsi[j] = jsi[i]
    /\ fowner = i /\ cpc[i] = "sc_commit"
    /\ storedIndex(fstore) = <<jsi[i]>>
    /\ Cardinality(jsi[i]) = 2
    /\ ftxn = fstore

holdsExactly(db, js, fs) ==
  /\ storedIndex(db) = <<js>>
  /\ fileKeys(db) = names(js)
  /\ \A k \in names(js) : db[k] = fs[k] /\ db[k].kind = "file"

toUpdate(L, R) ==
  (names(R) \ names(L)) \cup
  {k \in names(R) \cap names(L) : StrLess(revOf(L, k), revOf(R, k))}

toRemove(L, R) == names(L) \ names(R)

C20_Atomic ==
  [][/\ fstore' # fstore =>
          \E i \in Inst :
            /\ fowner = i
            /\ cpc[i] = "sc_commit" /\ cpc'[i] = "synced"
            /\ fstore' = ftxn
     /\ \A i \in Inst :
          cpc[i] # "sc_aborted" /\ cpc'[i] = "sc_aborted" =>
            fstore' = fstore /\ ftxn' = fstore
     /\ fowner' = 0 => ftxn' = fstore']_vars

C20_Witness ==
  /\ fowner = 0
  /\ wlog # {}
  /\ fstore = EmptyCache
  /\ \E i \in Inst : cpc[i] = "sc_aborted"

(***************************************************************************)
(* Properties of one load                                                  *)
(***************************************************************************)

\* The load of instance i has had a download fail.
fetchFailed(i) == "Failed to download" \in Range(f_err_log[i])

RECURSIVE sumSizes(_, _)
sumSizes(js, S) ==
  IF S = {} THEN 0
  ELSE LET k == CHOOSE x \in S : TRUE
       IN  sizeOf(js, k) + sumSizes(js, S \ {k})

\* C22: dataPassTwo's total is the sum of the sizes of exactly the entries
\* that have no data after the cache pass; and every step in which a
\* download completes, the last one included, leaves so_far as the sum of
\* the sizes of the completed downloads, which is at most the total, and
\* makes one progress report, of so_far over the total.
C22_Progress ==
  [][\A i \in Inst :
       /\ cpc[i] = "pass2" /\ cpc'[i] # "pass2" =>
            all_bytes'[i] = sumSizes(jsi[i], missing(jsi[i], files[i]))
       /\ cpc[i] = "fetch" /\ files'[i] # files[i] =>
            /\ so_far'[i] = sumSizes(jsi[i], reqs[i])
            /\ so_far'[i] <= all_bytes[i]
            /\ f_status_log'[i] =
                 Append(f_status_log[i],
                        statusReport(so_far'[i], all_bytes[i]))]_vars

\* The positions of a load from the call of syncCache on.
SyncCachePCs == {"sc_wait", "sc_index", "full_clear", "full_add", "upd_put",
                 "upd_keys", "upd_del", "sc_commit", "synced", "sc_aborted"}

\* C23: from the moment syncCache has been called, before its transaction
\* has run any request, f_ready has been called once and the data is
\* available; and whatever becomes of the transaction, also when it aborts
\* or when syncCache threw instead of creating it, f_err is not called.
C23_WriteBackDetached ==
  \A i \in Inst :
    cpc[i] \in SyncCachePCs \/ (cpc[i] = "ready" /\ jsi[i] # {}) =>
      /\ f_ready_n[i] = 1
      /\ m_loaded[i]
      /\ f_err_log[i] = <<>>

C23_Witness ==
  \E i \in Inst :
    /\ cpc[i] = "sc_aborted"
    /\ ~hasdb[i]
    /\ fstore = EmptyCache /\ wlog # {}
    /\ f_ready_n[i] = 1
    /\ m_loaded[i]
    /\ f_err_log[i] = <<>>

\* connectIXDB has called f_nodb in the load of instance i: the load went
\* on without a connection, or it failed without one and not because the
\* index did not verify.
storeUnavailable(i) ==
  /\ ~hasdb[i]
  /\ \/ cpc[i] \in {"pass2", "fetch", "ready"}
     \/ /\ cpc[i] = "failed"
        /\ f_err_log[i] # <<"Data file index not valid">>

\* The load of instance i runs from the network only: it has failed for
\* no other reason than a download, no data comes from the cache, and when
\* it is ready it has downloaded every file of the HTTP index and called
\* f_ready once.
networkOnly(i) ==
  /\ Range(f_err_log[i]) \subseteq {"Failed to download"}
  /\ \A k \in Range(entryNames) :
       files[i][k] # NoRecord =>
         k \in reqs[i] /\ files[i][k] = fileData(k, revOf(jsi[i], k))
  /\ cpc[i] = "ready" =>
       /\ reqs[i] = names(jsi[i])
       /\ \A k \in names(jsi[i]) : files[i][k] # NoRecord
       /\ f_ready_n[i] = 1 /\ m_loaded[i]
  /\ cpc[i] = "failed" => fetchFailed(i)

C26_NoStoredIndex ==
  [][\A i \in Inst :
       /\ /\ cpc[i] = "pass1" /\ cpc'[i] # "pass1"
          /\ ~Has(storedIndex(fstore))
          => /\ cpc'[i] = "pass2"
             /\ files'[i] = noFiles
             /\ f_err_log'[i] = <<>>
       /\ cpc[i] \in {"pass2", "fetch"} =>
            /\ \A k \in Range(entryNames) :
                 files'[i][k] # files[i][k] =>
                   /\ k \in reqs[i]
                   /\ files'[i][k] = fileData(k, revOf(jsi[i], k))
            /\ cpc'[i] \in {"sc_wait", "ready"} =>
                 \A k \in names(jsi[i]) : files'[i][k] # NoRecord]_vars

C26_Witness ==
  \E i \in Inst :
    /\ cpc[i] = "sc_wait"
    /\ fstore["index"].kind = "file"
    /\ fstore["b.gz"].kind = "file"
    /\ names(jsi[i]) = {"a.gz", "b.gz"}
    /\ reqs[i] = {"a.gz", "b.gz"}
    /\ f_err_log[i] = <<>>

\* The format of a file name: alphanumerics, underscore, hyphen and
\* period, with no period first, last or after another period.  Of the
\* names of the model only ".gz" is not in that format.
nameFormat(k) == k # ".gz"

\* Every entry of js has a name in name format other than "index", a
\* revision in revision format and a size that is zero or greater.
wellFormed(js) ==
  \A e \in js :
    /\ nameFormat(e[1])
    /\ e[1] # "index"
    /\ revisionFormat(e[2])
    /\ e[3] >= 0

\* initDB went on with the HTTP index of instance i after verifyIndex.
indexAccepted(i) ==
  /\ jsi[i] # {}
  /\ "Data file index not valid" \notin Range(f_err_log[i])

\* C27: verifyIndex accepts the HTTP index of a load exactly when every
\* entry has a name in name format that is not "index", a revision in
\* revision format and a non-negative integer size; one malformed name,
\* revision or size makes it refuse the index.
C27_Validation ==
  \A i \in Inst :
    jsi[i] # {} => (indexAccepted(i) <=> wellFormed(jsi[i]))

\* C28: in the committed store the key "index" has no record or holds a
\* raw data file index, never the bytes of a data file.
C28_ReservedKey == fstore["index"].kind \in {"none", "index"}

\* The load of instance i is an offline load: initDB called cacheLoad, and
\* there is no HTTP index.
offlineLoad(i) == cpc[i] # "start" /\ jsi[i] = {}

\* The stored index is usable and the store has a record for every file
\* it lists.
cacheComplete(db) ==
  /\ Has(storedIndex(db))
  /\ \A k \in names(Val(storedIndex(db))) : db[k] # NoRecord

\* C29: an offline load requests no file over HTTP, makes no progress
\* report of a download, never enters the passes of the online load or
\* syncCache and never holds a readwrite transaction; the step of its one
\* readonly transaction calls f_ready only when the stored index is usable
\* and every file it lists is stored, the loaded data being exactly those
\* records, and in every other case the load is ended by f_err.
C29_OfflineLoad ==
  [][\A i \in Inst :
       /\ offlineLoad(i)' =>
            /\ reqs'[i] = {}
            /\ f_status_log'[i] = <<>>
            /\ cpc'[i] \in {"cl_connect", "cl_index", "ready", "failed"}
            /\ fowner' # i
            /\ cpc'[i] = "ready" <=> f_ready_n'[i] = 1
            /\ cpc'[i] = "failed" <=> f_err_log'[i] # <<>>
            /\ f_ready_n'[i] <= 1
       /\ offlineLoad(i) /\ cpc[i] # "ready" /\ cpc'[i] = "ready" =>
            /\ cacheComplete(fstore)
            /\ m_loaded'[i]
            /\ \A k \in Range(entryNames) :
                 files'[i][k] = IF k \in names(Val(storedIndex(fstore)))
                                THEN fstore[k] ELSE NoRecord]_vars

C29_Witness ==
  \E i \in Inst :
    /\ offlineLoad(i)
    /\ cpc[i] = "ready"
    /\ f_ready_n[i] = 1 /\ f_err_log[i] = <<>>
    /\ names(cl_jsx[i]) = {"a.gz", "b.gz"}
    /\ files[i]["a.gz"] = fstore["a.gz"]
    /\ files[i]["b.gz"] = fstore["b.gz"]
    /\ reqs[i] = {}

\* C30: in one load f_ready and f_err are called at most once together,
\* and a load that has failed has called f_err exactly once and f_ready
\* not at all.
C30_SingleOutcome ==
  \A i \in Inst :
    /\ f_ready_n[i] + Len(f_err_log[i]) <= 1
    /\ cpc[i] = "failed" => f_ready_n[i] = 0 /\ Len(f_err_log[i]) = 1

(***************************************************************************)
(* Properties of the callbacks of the main module                          *)
(***************************************************************************)

\* C31: syncTransaction never invokes more than one callback, and once its
\* transaction has ended, by completion or by abort, it has invoked
\* exactly one.
C31_OneCallback ==
  \A i \in Inst :
    /\ Len(st_calls[i]) <= 1
    /\ n_sync[i] = 1 /\ pc[i] \notin SyncPCs \cup {"sync_wait"} =>
         Len(st_calls[i]) = 1

\* The positions at which a request, a transaction or a download of the
\* instance's initDB is still under way.
PendingPCs ==
  {"open", "checkDataver", "sync_wait", "prep_wait", "prep_get_image",
   "prep_fail", "clear", "tx_commit", "go"} \cup SyncPCs

\* C32: an instance that has called initDB and for which nothing is under
\* way any more has had f_done or f_err invoked.
C32_FinalCallback ==
  \A i \in Inst :
    pc[i] \notin PendingPCs \cup {"start"} => pc[i] \in {"done", "failed"}

\* C33: when a handler given to go has thrown, f_err has been invoked
\* after it; and a call of go with no download under way has ended with
\* f_done or f_err.
C33_ExceptionsCaught ==
  \A i \in Inst :
    /\ (\E n \in DOMAIN g_log[i] : g_log[i][n] = "throw") =>
         g_log[i][Len(g_log[i])] = "f_err"
    /\ g_pc[i] \notin {"idle", "index", "file"} =>
         g_log[i][Len(g_log[i])] \in {"f_done", "f_err"}

(***************************************************************************)
(* Properties of the loader's callbacks and connection                     *)
(***************************************************************************)

\* C34: once syncCache's transaction has ended, by completion or by
\* abort, the connection syncCache was given is closed.
C34_ConnectionClosed ==
  \A i \in Inst : cpc[i] \in {"synced", "sc_aborted"} => ~hasdb[i]

\* The positions of a load that has been through dataPassOne.
AfterPassOnePCs == {"pass2", "fetch", "ready"} \cup SyncCachePCs

\* C35: dataPassOne has called f_done exactly once when the load has gone
\* on from it, whether its transaction was aborted for want of a usable
\* stored index, failed on a request or went through all keys; it calls
\* f_done at no other time, and a load does not fail in dataPassOne.
C35_PassOneDone ==
  \A i \in Inst :
    /\ hasdb[i] /\ ~offlineLoad(i) /\ cpc[i] \in AfterPassOnePCs =>
         p1_done_n[i] = 1 /\ done_called[i]
    /\ p1_done_n[i] <= 1
    /\ p1_done_n[i] = 1 => cpc[i] \in AfterPassOnePCs \cup {"failed"}
    /\ cpc[i] = "pass1" => f_err_log[i] = <<>> /\ p1_done_n[i] = 0

\* A load went on to the download of a.gz with nothing attached although
\* the cache holds a usable index and a.gz at the revision asked for: a
\* request of dataPassOne's transaction failed, and both handlers ran.
C35_Witness ==
  \E i \in Inst :
    /\ cpc[i] = "fetch" /\ hasdb[i]
    /\ p1_done_n[i] = 1 /\ done_called[i]
    /\ names(jsi[i]) = {"a.gz"}
    /\ Has(storedIndex(fstore))
    /\ cacheData(fstore, storedIndex(fstore), jsi[i], "a.gz") # NoRecord
    /\ files[i] = noFiles

\* C36: connectIXDB never invokes more than one callback, and once its
\* open request is done it has invoked exactly one.
C36_OneCallback ==
  \A i \in Inst :
    /\ Len(x_calls[i]) <= 1
    /\ x_pc[i] = "done" => Len(x_calls[i]) = 1

(***************************************************************************)
(* Properties of the reload and of the instances that reload               *)
(***************************************************************************)

\* The data stores of db, the stores other than vars, hold no record.
dataEmpty(db) == \A n \in DOMAIN db : n # "vars" => db[n] = {}

\* C37: a step of reloadDB's clear loop is taken with the prefix passed,
\* the stored image being the remembered one, and leaves vars as it is; when the clearing transaction commits, every
\* store other than vars is empty and vars is what it was.  image changes
\* only in an initial transaction and at its commit; dataver changes only
\* there and in the transaction that ends a reload and at its commit.
C37_ClearFrame ==
  [][\A i \in Inst :
       /\ /\ owner = i /\ phase[i] = "clear"
          /\ pc[i] \in {"prep_get_image", "clear"}
          /\ pc'[i] \in {"clear", "tx_commit"}
          => /\ passed'[i]
             /\ txn.vars.image = <<m_dbimage[i]>>
             /\ txn'.vars = txn.vars
       /\ pc[i] = "tx_commit" /\ phase[i] = "clear" /\ pc'[i] = "go"
          => /\ dataEmpty(store')
             /\ store'.vars = store.vars
       /\ owner = i /\ txn'.vars.image # txn.vars.image
          => pc[i] \in SyncPCs
       /\ owner = i /\ store'.vars.image # store.vars.image
          => pc[i] = "sync_commit"
       /\ owner = i /\ txn'.vars.dataver # txn.vars.dataver
          => \/ pc[i] \in SyncPCs
             \/ phase[i] = "setdv" /\ pc[i] \in {"prep_get_image",
                                                    "tx_commit"}
       /\ owner = i /\ store'.vars.dataver # store.vars.dataver
          => \/ pc[i] = "sync_commit"
             \/ phase[i] = "setdv" /\ pc[i] = "tx_commit"
     /\ (owner = 0 => store'.vars = store.vars)]_vars

\* An instance has cleared the data another instance had loaded
\* completely: the stores are empty and image is still the image the
\* clearing instance set.
C37_Witness ==
  \E i, j \in Inst :
    /\ i # j /\ m_built[j]
    /\ pc[i] = "go" /\ idx[i] = 1
    /\ m_dbimage[i] = 2 /\ store.vars.image = <<2>>
    /\ ~Has(store.vars.dataver)
    /\ dataEmpty(store)

\* The initial transaction of instance i has committed and told it that
\* a reload is needed.
toldReload(i) == init_done[i] /\ need_reload[i]

\* C38: two instances that were told to reload never remember the same
\* image, so that at most one instance in its reload remembers the stored
\* image and can pass the prefix.
C38_DistinctImages ==
  /\ \A i, j \in Inst :
       i # j /\ toldReload(i) /\ toldReload(j) =>
         m_dbimage[i] # m_dbimage[j]
  /\ Cardinality({i \in Inst : /\ toldReload(i)
                               /\ pc[i] \in ReloadPCs
                               /\ store.vars.image = <<m_dbimage[i]>>}) <= 1

\* Two instances are in their reloads at once, with images 1 and 2, and
\* the one with image 2 holds a transaction that passed the prefix.
C38_Witness ==
  \E i, j \in Inst :
    /\ toldReload(i) /\ toldReload(j)
    /\ pc[i] \in ReloadPCs /\ pc[j] \in ReloadPCs
    /\ m_dbimage[i] = 1 /\ m_dbimage[j] = 2
    /\ owner = j /\ passed[j]

(***************************************************************************)
(* Properties of the committed cache                                       *)
(***************************************************************************)

\* The keys of db other than "index" that have a record.
blobKeys(db) == {k \in Range(fstoreKeys) \ {"index"} : db[k].kind # "none"}

\* C39: the committed store is empty, or it holds a usable index and the
\* keys other than "index" are exactly the names that index lists.
C39_KeysMatchIndex ==
  \/ fstore = EmptyCache
  \/ /\ Has(storedIndex(fstore))
     /\ blobKeys(fstore) = names(Val(storedIndex(fstore)))

\* C40: the revision the committed index records for a file is the
\* revision of the data stored under the file's key.
C40_RevisionsMatch ==
  Has(storedIndex(fstore)) =>
    \A k \in names(Val(storedIndex(fstore))) :
      fstore[k].kind = "file" =>
        fstore[k].rev = revOf(Val(storedIndex(fstore)), k)

====
